---- MODULE Spec2Model ----
(***************************************************************************)
(* A model of nanowatch: TimingRecord and Timer (core/timer.py), Collector *)
(* (core/collector.py), the adapters (interfaces/), the report and the     *)
(* export (output/formatter.py).                                           *)
(*                                                                         *)
(* The specifications share the variables:                                 *)
(*   SpecTimer      one Timer driven by start/stop/__enter__/__exit__      *)
(*   SpecWith       one Timer as the context manager of one with-block     *)
(*   SpecAlias      one Timer, its context dict and its record as objects  *)
(*   SpecHuman      one TimingRecord and best_human_duration()             *)
(*   SpecCollector  one Collector driven sequentially by its methods, an   *)
(*                  adapter, the report and the export                     *)
(*   SpecCopy       one Collector and a caller keeping a list from all()   *)
(*   SpecAdapters   the adapters, called one at a time, and two Collectors *)
(*   SpecWriters    one Collector shared by N writer threads, and the main *)
(*                  thread that joins them and calls all()                 *)
(*   SpecConc       one Collector shared by writer, clearer and reader     *)
(*                  threads, interleaved at the granularity of CPython     *)
(*                  bytecode (a C-level list call is one step, a Python    *)
(*                  level loop is one step per iteration)                  *)
(* Each specification leaves the variables of the others at their initial  *)
(* values.                                                                 *)
(***************************************************************************)
EXTENDS Integers, Sequences, FiniteSets, TLC

VARIABLES
    now,        \* the last reading of time.perf_counter_ns()
    timer,      \* the Timer object: name, context, _start_ns, _record
    tlast,      \* the last call made on the Timer and how it ended
    produced,   \* every TimingRecord a stop() has constructed, in order
    records,    \* Collector._records
    added,      \* the records handed to add() since construction or the last clear()
    last,       \* the last call made on the Collector and what it returned
    hist,       \* the latest grouped()/stats() call, and whether the store changed since
    pc,         \* each thread's position
    loc,        \* each thread's local variables
    snaps,      \* every value Collector._records has had so far
    cleared,    \* a clear() has run on the Collector
    held,       \* the list a caller keeps from an all() call
    blk,        \* a with-block on the Timer: position, exit path, outcome
    colls,      \* the _records of each Collector the adapters can record into
    inv,        \* the adapter invocation in progress
    done,       \* the call that just ended, and what it gave its caller
    expected,   \* the records the calls made so far should have left, in all
    ncalls,     \* the calls made so far that add a record
    heap,       \* the dict objects: the caller's dict and the one `or {}` makes
    ali,        \* a Timer, the dict passed to it, the record it produced, by reference
    human       \* a TimingRecord and what best_human_duration() returned for it

vars == <<now, timer, tlast, produced, records, added, last, hist, pc, loc, snaps, cleared,
         held, blk, colls, inv, done, expected, ncalls,
         heap, ali, human>>

----------------------------------------------------------------------------
(* Bounds of the model.                                                    *)

MaxClock == 3       \* clock readings range over 0..MaxClock
MaxStops == 3       \* stop()/__exit__ calls made on the one Timer
MaxRecords == 3     \* records held by the sequentially driven Collector
NWriters == 2       \* N: writer threads sharing the Collector
AddsPerThread == 3  \* M: add() calls of each writer thread
AdapterCalls == 2   \* calls that add a record to the adapters' Collectors
MaxMarks == 3       \* mark() calls on the LineProfiler
WatchCalls == 2     \* calls of decorated functions by each thread
MaxDepth == 2       \* nesting of timed regions in one thread
HumanOffset == 4    \* durations range this far to each side of a unit boundary

\* The variables each specification leaves alone.
TimerUnchanged == UNCHANGED <<now, timer, tlast, produced>>

CollectorUnchanged == UNCHANGED <<records, added, last, hist, cleared>>
ThreadsUnchanged == UNCHANGED <<pc, loc, snaps>>
HeldUnchanged == UNCHANGED held
BlockUnchanged == UNCHANGED blk
AdaptersUnchanged == UNCHANGED <<colls, inv, done, expected, ncalls>>
AliasUnchanged == UNCHANGED <<heap, ali>>
HumanUnchanged == UNCHANGED human

\* The variables beyond the Timer, the Collector and its threads.
OutsideUnchanged ==
    /\ HeldUnchanged /\ BlockUnchanged /\ AdaptersUnchanged /\ AliasUnchanged
    /\ HumanUnchanged

----------------------------------------------------------------------------
(* Python values.                                                          *)

\* Optional[T]: None is the empty sequence, a value x is <<x>>.
None == <<>>
Some(x) == <<x>>

\* Optional[int] as held by Timer._start_ns and TimingRecord.start_ns: None is
\* a number no clock reading equals (perf_counter_ns() is never negative).
NoneNs == -1

\* A dict is the set of its (key, value) pairs.
EmptyDict == {}

\* `x or {}`: None and the empty dict are falsy and give a new empty dict.
OrEmptyDict(context) ==
    IF context = None \/ context[1] = EmptyDict THEN EmptyDict ELSE context[1]

----------------------------------------------------------------------------
(* TimingRecord (core/timer.py).                                           *)

TimingRecord(name, start_ns, end_ns, context) ==
    [name |-> name, start_ns |-> start_ns, end_ns |-> end_ns, context |-> context]

\* An exception leaving a call, in place of the value: a pair, which no
\* Optional value (None is <<>>, a value x is <<x>>) equals.
Raised(exception) == <<"raised", exception>>

\* self.end_ns - self.start_ns is a TypeError when start_ns is None, as in the
\* record stop() builds for a Timer that was never started.
duration_ns_raises(r) == r.start_ns = NoneNs

duration_ns(r) ==
    IF duration_ns_raises(r) THEN Raised("TypeError") ELSE r.end_ns - r.start_ns

----------------------------------------------------------------------------
(* Timer (core/timer.py).                                                  *)

Timer_init(name, context) ==
    [name |-> name, context |-> OrEmptyDict(context),
     start_ns |-> NoneNs, record |-> None]

\* start(): no check of the Timer's state; overwrites _start_ns.
Timer_start(t, clock) == [t EXCEPT !.start_ns = clock]

\* The record stop() constructs.
Timer_stop_record(t, clock) == TimingRecord(t.name, t.start_ns, clock, t.context)

\* A faulty stop(): returns without assigning _record
Timer_stop_forget(t, clock) == t

\* stop(): no check of the Timer's state; overwrites _record.
Timer_stop(t, clock) == [t EXCEPT !.record = Some(Timer_stop_record(t, clock))]

\* The record property.
Timer_record(t) == t.record

\* The state of the spec's state machine a Timer's fields stand for.
TimerState(t) ==
    IF t.record # None THEN "stopped"
    ELSE IF t.start_ns # NoneNs THEN "running"
    ELSE "idle"

TimerNames == {"ctx", "test"}
TimerContexts == {None, Some(EmptyDict), Some({<<"k", "v">>})}

\* A reading of time.perf_counter_ns(): monotonic, not strictly.
ClockReadings == now..MaxClock

NoCall == [op |-> "none", pre |-> "idle", prestart |-> NoneNs,
           prerecord |-> None, raised |-> FALSE, value |-> None]

\* What a call on the Timer did: the code has no raise statement, so every
\* call returns.
Returned(op, value) ==
    [op |-> op, pre |-> TimerState(timer), prestart |-> timer.start_ns,
     prerecord |-> timer.record, raised |-> FALSE, value |-> value]

\* The variables of the other specifications, at rest.
TimerAtRest ==
    /\ now = 0
    /\ timer = Timer_init("test", None)
    /\ tlast = NoCall
    /\ produced = <<>>


\* Timer(name, context), any time after the process started.
InitTimer ==
    /\ now = 0
    /\ \E name \in TimerNames, context \in TimerContexts :
          timer = Timer_init(name, context)
    /\ tlast = NoCall
    /\ produced = <<>>

\* timer.start()
Start ==
    /\ CollectorUnchanged /\ ThreadsUnchanged /\ OutsideUnchanged
    /\ \E clock \in ClockReadings :
          /\ now' = clock
          /\ timer' = Timer_start(timer, clock)
    /\ tlast' = Returned("start", "self")
    /\ UNCHANGED produced

\* timer.stop()
Stop ==
    /\ CollectorUnchanged /\ ThreadsUnchanged /\ OutsideUnchanged
    /\ Len(produced) < MaxStops
    /\ \E clock \in ClockReadings :
          /\ now' = clock
          /\ timer' = Timer_stop(timer, clock)
          /\ tlast' = Returned("stop", Timer_record(timer'))
          /\ produced' = Append(produced, Timer_stop_record(timer, clock))

\* timer.__enter__(): return self.start()
Enter ==
    /\ CollectorUnchanged /\ ThreadsUnchanged /\ OutsideUnchanged
    /\ \E clock \in ClockReadings :
          /\ now' = clock
          /\ timer' = Timer_start(timer, clock)
    /\ tlast' = Returned("__enter__", "self")
    /\ UNCHANGED produced

\* timer.__exit__(*_): self.stop(), returns None
Exit ==
    /\ CollectorUnchanged /\ ThreadsUnchanged /\ OutsideUnchanged
    /\ Len(produced) < MaxStops
    /\ \E clock \in ClockReadings :
          /\ now' = clock
          /\ timer' = Timer_stop(timer, clock)
          /\ tlast' = Returned("__exit__", None)
          /\ produced' = Append(produced, Timer_stop_record(timer, clock))

----------------------------------------------------------------------------
(* Collector (core/collector.py).                                          *)

\* __init__: self._records = []
Collector_init == <<>>

\* A faulty add(): self._records.insert(0, record)
Collector_add_front(recs, record) == <<record>> \o recs

\* A faulty add(): skips a record equal to one already stored
Collector_add_unique(recs, record) ==
    IF \E i \in 1..Len(recs) : recs[i] = record THEN recs ELSE Append(recs, record)

\* add(): self._records.append(record)
Collector_add(recs, record) == Append(recs, record)

\* all(): list(self._records), a new list with the same elements
Collector_all(recs) == [i \in 1..Len(recs) |-> recs[i]]

\* A faulty by_name(): compares the names without regard to case
Lower(name) == IF name = "A" THEN "a" ELSE name

by_name_step_nocase(acc, r, name) ==
    IF Lower(r.name) = Lower(name) THEN Append(acc, r) ELSE acc

\* by_name(): one iteration of the comprehension [r for r in ... if r.name == name]
by_name_step(acc, r, name) == IF r.name = name THEN Append(acc, r) ELSE acc

RECURSIVE by_name_from(_, _, _, _)
by_name_from(recs, name, i, acc) ==
    IF i > Len(recs) THEN acc
    ELSE by_name_from(recs, name, i + 1, by_name_step(acc, recs[i], name))

Collector_by_name(recs, name) == by_name_from(recs, name, 1, <<>>)

\* grouped(): a dict is a function from its keys; defaultdict(list) starts empty
EmptyGroups == [k \in {} |-> <<>>]

\* A faulty grouped(): groups[record.name] = [record]
grouped_step_overwrite(groups, r) ==
    [k \in DOMAIN groups \cup {r.name} |-> IF k = r.name THEN <<r>> ELSE groups[k]]

\* grouped(): one iteration of the loop, groups[record.name].append(record)
grouped_step(groups, r) ==
    IF r.name \in DOMAIN groups
    THEN [groups EXCEPT ![r.name] = Append(@, r)]
    ELSE [k \in DOMAIN groups \cup {r.name} |->
             IF k = r.name THEN <<r>> ELSE groups[k]]

RECURSIVE grouped_from(_, _, _)
grouped_from(recs, i, groups) ==
    IF i > Len(recs) THEN groups
    ELSE grouped_from(recs, i + 1, grouped_step(groups, recs[i]))

Collector_grouped(recs) == grouped_from(recs, 1, EmptyGroups)

\* The builtins stats() uses, over a non-empty list of integers.
RECURSIVE PySum(_)
PySum(xs) == IF xs = <<>> THEN 0 ELSE xs[1] + PySum(Tail(xs))

\* A faulty min(): the first element
PyFirst(xs) == xs[1]

RECURSIVE PyMin(_)
PyMin(xs) ==
    IF Len(xs) = 1 THEN xs[1]
    ELSE LET m == PyMin(Tail(xs)) IN IF m < xs[1] THEN m ELSE xs[1]

\* A faulty max(): the last element
PyLast(xs) == xs[Len(xs)]

RECURSIVE PyMax(_)
PyMax(xs) ==
    IF Len(xs) = 1 THEN xs[1]
    ELSE LET m == PyMax(Tail(xs)) IN IF m > xs[1] THEN m ELSE xs[1]

\* A faulty average: division rounded to the nearest integer
RoundDiv(a, b) == (2 * a + b) \div (2 * b)

\* Python's //: floor division (the divisor is a length, so positive).
FloorDiv(a, b) == a \div b

\* stats(), after records = self.by_name(name)
stats_of(matching) ==
    IF matching = <<>> THEN None
    ELSE IF \E i \in 1..Len(matching) : duration_ns_raises(matching[i])
    THEN Raised("TypeError")
    ELSE LET durations == [i \in 1..Len(matching) |-> duration_ns(matching[i])]
         IN Some([count    |-> Len(durations),
                  min_ns   |-> PyMin(durations),
                  max_ns   |-> PyMax(durations),
                  avg_ns   |-> FloorDiv(PySum(durations), Len(durations)),
                  total_ns |-> PySum(durations)])

Collector_stats(recs, name) == stats_of(Collector_by_name(recs, name))

\* A faulty clear(): self._records.pop()
Collector_clear_pop(recs) ==
    IF recs = <<>> THEN recs ELSE SubSeq(recs, 1, Len(recs) - 1)

\* clear(): self._records.clear()
Collector_clear(recs) == <<>>

----------------------------------------------------------------------------
(* The adapters' use of Timer and Collector, the report and the export     *)
(* (interfaces/decorators.py, output/formatter.py, __init__.py).           *)

\* What a timed invocation hands to collector.add(): Timer(label).start() at
\* the reading start_ns, then record = timer.stop() at the reading end_ns.
watch_record(label, start_ns, end_ns) ==
    Timer_stop_record(Timer_start(Timer_init(label, None), start_ns), end_ns)

\* The number of binary digits of a positive integer (0 for 0).
RECURSIVE bit_length(_)
bit_length(n) == IF n = 0 THEN 0 ELSE 1 + bit_length(n \div 2)

\* The long division n / d continued from the remainder r until the quotient
\* has the 53 significant binary digits of a double (sig counts them, digit is
\* the latest digit); the remainder left then says to which side the division
\* rounded: to the nearest double, a tie to the even one.
RECURSIVE float_side_from(_, _, _, _)
float_side_from(r, d, sig, digit) ==
    IF sig < 53
    THEN IF r = 0 THEN "equal"
         ELSE LET bit == IF 2 * r >= d THEN 1 ELSE 0
              IN float_side_from(2 * r - d * bit, d,
                                 IF sig > 0 \/ bit = 1 THEN sig + 1 ELSE sig, bit)
    ELSE IF 2 * r > d THEN "above"
    ELSE IF 2 * r < d THEN (IF r > 0 THEN "below" ELSE "equal")
    ELSE IF digit = 1 THEN "above" ELSE "below"

\* The float n / d of two integers: whether the double lies above or below
\* the exact quotient, or equals it.
float_side(n, d) ==
    float_side_from(n % d, d, bit_length(n \div d), (n \div d) % 2)

\* round(ns / per, ndigits) in units of 10^-ndigits, step = per / 10^ndigits
\* being the nanoseconds in one such unit.  round() rounds the double
\* correctly: off a tie that is the nearest unit; on a tie of the exact
\* quotient the side on which the double lies decides, and the even unit if
\* the double is exact.
RoundNearest(ns, per, step) ==
    LET q == ns \div step
        r == ns % step
    IN IF 2 * r < step THEN q
       ELSE IF 2 * r > step THEN q + 1
       ELSE IF float_side(ns, per) = "above" THEN q + 1
       ELSE IF float_side(ns, per) = "below" THEN q
       ELSE IF q % 2 = 0 THEN q ELSE q + 1

\* print_summary(): None when nothing is stored; else one entry per name of
\* grouped(), a record line for a single record and a stats block otherwise,
\* and the totals over all().
print_summary(recs) ==
    LET all == Collector_all(recs)
        grouped == Collector_grouped(recs)
    IN IF all = <<>> THEN None
       ELSE IF \E i \in 1..Len(all) : duration_ns_raises(all[i])
       THEN Raised("TypeError")
       ELSE Some([entries |->
                    [name \in DOMAIN grouped |->
                        IF Len(grouped[name]) = 1
                        THEN [kind |-> "line", record |-> Some(grouped[name][1]),
                              stats |-> None]
                        ELSE [kind |-> "block", record |-> None,
                              stats |-> Collector_stats(recs, name)]],
                  total_ns |-> PySum([i \in 1..Len(all) |-> duration_ns(all[i])]),
                  total_measurements |-> Len(all)])

\* save_to_file(): the payload written as JSON (generated_at left out); the
\* rounded durations are in thousandths of a us, thousandths of a ms and
\* billionths of a s.
save_to_file(recs) ==
    LET all == Collector_all(recs)
    IN IF \E i \in 1..Len(all) : duration_ns_raises(all[i])
       THEN Raised("TypeError")
       ELSE
       [total_measurements |-> Len(all),
        records |->
            [i \in 1..Len(all) |->
                [name |-> all[i].name,
                 duration_ns |-> duration_ns(all[i]),
                 duration_us |-> RoundNearest(duration_ns(all[i]), 1000, 1),
                 duration_ms |-> RoundNearest(duration_ns(all[i]), 1000000, 1000),
                 duration_s |-> RoundNearest(duration_ns(all[i]), 1000000000, 1),
                 context |-> all[i].context]],
        groups |->
            [name \in DOMAIN Collector_grouped(recs) |-> Collector_stats(recs, name)]]

----------------------------------------------------------------------------
(* SpecCollector: one Collector, called from one thread.                   *)

RecordNames == {"a", "A"}
QueryNames == RecordNames \cup {"unknown"}

\* The (start_ns, end_ns) pairs of the records a caller hands to add():
\* durations 100, 101 and 300.
InputReadings == {<<0, 100>>, <<100, 201>>, <<0, 300>>}

InputRecords ==
    {TimingRecord(n, se[1], se[2], EmptyDict) :
        n \in RecordNames, se \in InputReadings}

NoQuery == [op |-> "none", arg |-> None, value |-> None, pre |-> <<>>,
            afterChange |-> FALSE]

\* What a call on the Collector returned: pre is the store before the call,
\* afterChange says a query of the same kind was made before and the store was
\* changed between the two.
Result(op, arg, value) ==
    [op |-> op, arg |-> arg, value |-> value, pre |-> records,
     afterChange |-> hist = <<op, "changed">>]

\* hist: the kind of the latest grouped()/stats() call, and whether the store
\* was changed since.
NoHistory == <<"none", "none">>
Queried(kind) == <<kind, "queried">>
Changed == IF hist = NoHistory THEN hist ELSE <<hist[1], "changed">>

CollectorAtRest ==
    /\ records = Collector_init
    /\ added = <<>>
    /\ last = NoQuery
    /\ hist = NoHistory
    /\ cleared = FALSE


\* collector.add(record)
Add ==
    /\ TimerUnchanged /\ ThreadsUnchanged /\ OutsideUnchanged
    /\ Len(records) < MaxRecords
    /\ \E record \in InputRecords :
          /\ records' = Collector_add(records, record)
          /\ added' = Append(added, record)
          /\ last' = Result("add", Some(record), None)
    /\ hist' = Changed
    /\ UNCHANGED cleared

\* collector.clear()
Clear ==
    /\ TimerUnchanged /\ ThreadsUnchanged /\ OutsideUnchanged
    /\ records' = Collector_clear(records)
    /\ added' = <<>>
    /\ last' = Result("clear", None, None)
    /\ hist' = Changed
    /\ cleared' = TRUE

\* collector.all()
All ==
    /\ TimerUnchanged /\ ThreadsUnchanged /\ OutsideUnchanged
    /\ last' = Result("all", None, Collector_all(records))
    /\ UNCHANGED <<records, added, hist, cleared>>

\* collector.by_name(name)
ByName ==
    /\ TimerUnchanged /\ ThreadsUnchanged /\ OutsideUnchanged
    /\ \E name \in QueryNames :
          last' = Result("by_name", Some(name), Collector_by_name(records, name))
    /\ UNCHANGED <<records, added, hist, cleared>>

\* collector.grouped()
Grouped ==
    /\ TimerUnchanged /\ ThreadsUnchanged /\ OutsideUnchanged
    /\ last' = Result("grouped", None, Collector_grouped(records))
    /\ hist' = Queried("grouped")
    /\ UNCHANGED <<records, added, cleared>>

\* collector.stats(name)
Stats ==
    /\ TimerUnchanged /\ ThreadsUnchanged /\ OutsideUnchanged
    /\ \E name \in QueryNames :
          last' = Result("stats", Some(name), Collector_stats(records, name))
    /\ hist' = Queried("stats")
    /\ UNCHANGED <<records, added, cleared>>

\* A call through an adapter that records into this Collector (a function
\* decorated with @watch, watch_call, watch_block): in its finally block,
\* record = timer.stop(); collector.add(record).
Watch ==
    /\ TimerUnchanged /\ ThreadsUnchanged /\ OutsideUnchanged
    /\ Len(records) < MaxRecords
    /\ \E label \in RecordNames, reading \in InputReadings :
          LET record == watch_record(label, reading[1], reading[2])
          IN /\ records' = Collector_add(records, record)
             /\ added' = Append(added, record)
             /\ last' = Result("watch", Some(record), None)
    /\ hist' = Changed
    /\ UNCHANGED cleared

\* print_summary(collector)
PrintSummary ==
    /\ TimerUnchanged /\ ThreadsUnchanged /\ OutsideUnchanged
    /\ last' = Result("print_summary", None, print_summary(records))
    /\ UNCHANGED <<records, added, hist, cleared>>

\* save_to_file(collector, path)
SaveToFile ==
    /\ TimerUnchanged /\ ThreadsUnchanged /\ OutsideUnchanged
    /\ last' = Result("save_to_file", None, save_to_file(records))
    /\ UNCHANGED <<records, added, hist, cleared>>

\* nanowatch.reset(): default_collector.clear()
Reset ==
    /\ TimerUnchanged /\ ThreadsUnchanged /\ OutsideUnchanged
    /\ records' = Collector_clear(records)
    /\ added' = <<>>
    /\ last' = Result("reset", None, None)
    /\ hist' = Changed
    /\ cleared' = TRUE

----------------------------------------------------------------------------
(* Threads sharing one Collector.  A thread switch can happen between any  *)
(* two bytecodes: list.append, list.clear and list(list) are single calls  *)
(* into C and run as one step; the loops of by_name() and grouped() are    *)
(* Python-level and run one step per element, each step asking the list    *)
(* iterator for the element at its index if the list is that long.         *)

Writers == 1..NWriters
ClearerId == NWriters + 1
ReaderId == NWriters + 2
Threads == 1..(NWriters + 2)

\* The k-th record writer t adds: start_ns tells the thread, the duration k.
WriterName(t, k) == IF (t + k) % 2 = 0 THEN "a" ELSE "A"
WriterRecord(t, k) == TimingRecord(WriterName(t, k), t, t + k, EmptyDict)

NoLocals == [k |-> 0, op |-> "none", name |-> "", i |-> 0, acc |-> <<>>,
             groups |-> EmptyGroups, result |-> None]

ThreadsAtRest ==
    /\ pc = [t \in Threads |-> "off"]
    /\ loc = [t \in Threads |-> NoLocals]
    /\ snaps = {Collector_init}


\* The contents the store has had, recs being the latest.
SnapsWith(recs) == snaps \cup {recs}

\* Writer t calls add(record): the frame is entered, nothing is stored yet.
AddCall(t) ==
    /\ TimerUnchanged /\ OutsideUnchanged /\ UNCHANGED <<added, last, hist>>
    /\ pc[t] = "idle"
    /\ pc' = [pc EXCEPT ![t] = "in_add"]
    /\ UNCHANGED <<records, loc, snaps, cleared>>

\* Writer t: self._records.append(record), and add() returns.
AddAppend(t) ==
    /\ TimerUnchanged /\ OutsideUnchanged /\ UNCHANGED <<added, last, hist>>
    /\ pc[t] = "in_add"
    /\ records' = Collector_add(records, WriterRecord(t, loc[t].k + 1))
    /\ loc' = [loc EXCEPT ![t].k = @ + 1]
    /\ pc' = [pc EXCEPT ![t] = IF loc[t].k + 1 = AddsPerThread THEN "done" ELSE "idle"]
    /\ snaps' = SnapsWith(records')
    /\ UNCHANGED cleared

WritersDone == \A t \in Writers : pc[t] = "done"

\* The main thread, after joining the writers: collector.all()
JoinAll ==
    /\ TimerUnchanged /\ OutsideUnchanged /\ UNCHANGED <<added, last, hist>>
    /\ pc[ReaderId] = "join"
    /\ WritersDone
    /\ pc' = [pc EXCEPT ![ReaderId] = "done"]
    /\ loc' = [loc EXCEPT ![ReaderId].op = "all",
                          ![ReaderId].result = Collector_all(records)]
    /\ UNCHANGED <<records, snaps, cleared>>

\* The clearer thread: collector.clear()
ClearCall ==
    /\ TimerUnchanged /\ OutsideUnchanged /\ UNCHANGED <<added, last, hist>>
    /\ pc[ClearerId] = "idle"
    /\ records' = Collector_clear(records)
    /\ pc' = [pc EXCEPT ![ClearerId] = "done"]
    /\ cleared' = TRUE
    /\ snaps' = SnapsWith(records')
    /\ UNCHANGED loc

\* The reader thread: collector.all() = list(self._records)
ReadAll ==
    /\ TimerUnchanged /\ OutsideUnchanged /\ UNCHANGED <<added, last, hist>>
    /\ pc[ReaderId] = "idle"
    /\ pc' = [pc EXCEPT ![ReaderId] = "done"]
    /\ loc' = [loc EXCEPT ![ReaderId].op = "all",
                          ![ReaderId].result = Collector_all(records)]
    /\ UNCHANGED <<records, snaps, cleared>>

\* The reader thread calls by_name(name), stats(name) or grouped(): the loop
\* over self._records begins.
ReadCall ==
    /\ TimerUnchanged /\ OutsideUnchanged /\ UNCHANGED <<added, last, hist>>
    /\ pc[ReaderId] = "idle"
    /\ \E op \in {"by_name", "stats", "grouped"}, name \in QueryNames :
          /\ op = "grouped" => name = "a"
          /\ loc' = [loc EXCEPT ![ReaderId].op = op, ![ReaderId].name = name]
    /\ pc' = [pc EXCEPT ![ReaderId] = "iter"]
    /\ UNCHANGED <<records, snaps, cleared>>

\* The reader's loop takes the next element of self._records.
ReadIter ==
    /\ TimerUnchanged /\ OutsideUnchanged /\ UNCHANGED <<added, last, hist>>
    /\ pc[ReaderId] = "iter"
    /\ loc[ReaderId].i < Len(records)
    /\ LET me == loc[ReaderId]
           r == records[me.i + 1]
       IN loc' = [loc EXCEPT
                    ![ReaderId].i = me.i + 1,
                    ![ReaderId].acc =
                        IF me.op = "grouped" THEN me.acc
                        ELSE by_name_step(me.acc, r, me.name),
                    ![ReaderId].groups =
                        IF me.op = "grouped" THEN grouped_step(me.groups, r)
                        ELSE me.groups]
    /\ UNCHANGED <<records, pc, snaps, cleared>>

\* The reader's loop finds the list iterator exhausted, and the call returns.
ReadReturn ==
    /\ TimerUnchanged /\ OutsideUnchanged /\ UNCHANGED <<added, last, hist>>
    /\ pc[ReaderId] = "iter"
    /\ loc[ReaderId].i >= Len(records)
    /\ LET me == loc[ReaderId]
       IN loc' = [loc EXCEPT ![ReaderId].result =
                    CASE me.op = "by_name" -> me.acc
                      [] me.op = "stats" -> stats_of(me.acc)
                      [] me.op = "grouped" -> me.groups]
    /\ pc' = [pc EXCEPT ![ReaderId] = "done"]
    /\ UNCHANGED <<records, snaps, cleared>>

\* What the reader's query gives on the contents recs.
QueryOn(op, name, recs) ==
    CASE op = "all" -> Collector_all(recs)
      [] op = "by_name" -> Collector_by_name(recs, name)
      [] op = "stats" -> Collector_stats(recs, name)
      [] op = "grouped" -> Collector_grouped(recs)

----------------------------------------------------------------------------
(* The specifications.                                                     *)

----------------------------------------------------------------------------
(* A caller that keeps the list all() returned (SpecCopy).  A Python list  *)
(* is an object: two references to one object see each other's changes.    *)
(* A kept list is the object it is, the items the object holds, and `own`, *)
(* the items its holder has put in it: what all() returned, changed by the *)
(* holder's own calls only.                                                *)

\* A faulty all(): return self._records
list_same(items) == [obj |-> "self._records", items |-> items, own |-> items]

\* list(self._records): a new list object with the same items
list_new(items) == [obj |-> "new", items |-> items, own |-> items]

\* collector.all(), as the object the caller receives
Collector_all_list(recs) == list_new(Collector_all(recs))

HeldAtRest == held = None

\* The records this specification adds: one reading, the two names.
CopyRecords == {r \in InputRecords : r.start_ns = 0 /\ r.end_ns = 100}

\* list.append, list.pop and list.reverse, by value
list_append(items, x) == Append(items, x)
list_pop(items) == SubSeq(items, 1, Len(items) - 1)
list_reverse(items) == [i \in 1..Len(items) |-> items[Len(items) + 1 - i]]

\* A write of the value items to a list object: the Collector's store after it,
\* and the kept list after it.
StoreAfterWrite(obj, items) == IF obj = "self._records" THEN items ELSE records
HeldAfterWrite(obj, items) ==
    IF held # None /\ held[1].obj = obj
    THEN Some([held[1] EXCEPT !.items = items]) ELSE held

\* The holder writes items to its list.
HolderWrites(items) ==
    /\ records' = StoreAfterWrite(held[1].obj, items)
    /\ held' = Some([held[1] EXCEPT !.items = items, !.own = items])
    /\ UNCHANGED <<added, last, hist, cleared>>

\* kept = collector.all()
CopyAll ==
    /\ TimerUnchanged /\ ThreadsUnchanged /\ BlockUnchanged /\ AdaptersUnchanged
    /\ AliasUnchanged /\ HumanUnchanged
    /\ held' = Some(Collector_all_list(records))
    /\ UNCHANGED <<records, added, last, hist, cleared>>

\* kept.append(record)
HeldAppend ==
    /\ TimerUnchanged /\ ThreadsUnchanged /\ BlockUnchanged /\ AdaptersUnchanged
    /\ AliasUnchanged /\ HumanUnchanged
    /\ held # None
    /\ Len(held[1].items) < MaxRecords
    /\ \E record \in CopyRecords : HolderWrites(list_append(held[1].items, record))

\* kept.pop()
HeldPop ==
    /\ TimerUnchanged /\ ThreadsUnchanged /\ BlockUnchanged /\ AdaptersUnchanged
    /\ AliasUnchanged /\ HumanUnchanged
    /\ held # None
    /\ held[1].items # <<>>
    /\ HolderWrites(list_pop(held[1].items))

\* kept.reverse()
HeldReverse ==
    /\ TimerUnchanged /\ ThreadsUnchanged /\ BlockUnchanged /\ AdaptersUnchanged
    /\ AliasUnchanged /\ HumanUnchanged
    /\ held # None
    /\ HolderWrites(list_reverse(held[1].items))

\* collector.add(record), while a caller may hold a list
CopyAdd ==
    /\ TimerUnchanged /\ ThreadsUnchanged /\ BlockUnchanged /\ AdaptersUnchanged
    /\ AliasUnchanged /\ HumanUnchanged
    /\ Len(records) < MaxRecords
    /\ \E record \in CopyRecords :
          /\ records' = Collector_add(records, record)
          /\ held' = HeldAfterWrite("self._records", Collector_add(records, record))
          /\ added' = Append(added, record)
          /\ last' = Result("add", Some(record), None)
    /\ hist' = Changed
    /\ UNCHANGED cleared

\* collector.clear(), while a caller may hold a list
CopyClear ==
    /\ TimerUnchanged /\ ThreadsUnchanged /\ BlockUnchanged /\ AdaptersUnchanged
    /\ AliasUnchanged /\ HumanUnchanged
    /\ records' = Collector_clear(records)
    /\ held' = HeldAfterWrite("self._records", Collector_clear(records))
    /\ added' = <<>>
    /\ last' = Result("clear", None, None)
    /\ hist' = Changed
    /\ cleared' = TRUE

----------------------------------------------------------------------------
(* A Timer as the context manager of a with-block (SpecWith):              *)
(*     with Timer(name, context) as t: <work>                              *)
(* The statement calls __enter__, runs the work, calls __exit__ on every   *)
(* way out of the work, and drops a failure of the work only when __exit__ *)
(* returned a true value.                                                  *)

\* A faulty __exit__: return True
Timer_exit_true(t) == Some(TRUE)

\* What __exit__ returns: it has no return statement.
Timer_exit(t) == None

\* bool(value) of a returned value
PyTruthy(value) == value # None /\ value # Some(FALSE)

\* The ways the work of the block ends.
BlockPaths == {"normal", "return", "raise"}

\* How the with-statement ends, given the way the work ended and what
\* __exit__ returned.
with_outcome(path, exit_value) ==
    IF path = "raise"
    THEN IF PyTruthy(exit_value) THEN "suppressed" ELSE "raised"
    ELSE IF path = "return" THEN "returned" ELSE "completed"

NoBlock == [pc |-> "before", path |-> "none", outcome |-> "none",
            starts |-> 0, stops |-> 0, recorded |-> FALSE]

BlockAtRest == blk = NoBlock

\* The with-statement calls timer.__enter__(): return self.start()
WithEnter ==
    /\ CollectorUnchanged /\ ThreadsUnchanged /\ HeldUnchanged /\ AdaptersUnchanged
    /\ AliasUnchanged /\ HumanUnchanged
    /\ blk.pc = "before"
    /\ \E clock \in ClockReadings :
          /\ now' = clock
          /\ timer' = Timer_start(timer, clock)
    /\ tlast' = Returned("__enter__", "self")
    /\ blk' = [blk EXCEPT !.pc = "body", !.starts = @ + 1]
    /\ UNCHANGED produced

\* The work of the block ends: it runs to its end, returns early or raises.
WithBody ==
    /\ CollectorUnchanged /\ ThreadsUnchanged /\ HeldUnchanged /\ AdaptersUnchanged
    /\ AliasUnchanged /\ HumanUnchanged
    /\ blk.pc = "body"
    /\ \E path \in BlockPaths : blk' = [blk EXCEPT !.pc = "exit", !.path = path]
    /\ UNCHANGED <<now, timer, tlast, produced>>

\* The with-statement calls timer.__exit__(*exc_info): self.stop()
WithExit ==
    /\ CollectorUnchanged /\ ThreadsUnchanged /\ HeldUnchanged /\ AdaptersUnchanged
    /\ AliasUnchanged /\ HumanUnchanged
    /\ blk.pc = "exit"
    /\ Len(produced) < MaxStops
    /\ \E clock \in ClockReadings :
          /\ now' = clock
          /\ timer' = Timer_stop(timer, clock)
          /\ produced' = Append(produced, Timer_stop_record(timer, clock))
    /\ tlast' = Returned("__exit__", Timer_exit(timer))
    /\ blk' = [blk EXCEPT !.pc = "leave", !.stops = @ + 1]

\* The with-statement ends: the caller gets the outcome.
WithLeave ==
    /\ CollectorUnchanged /\ ThreadsUnchanged /\ HeldUnchanged /\ AdaptersUnchanged
    /\ AliasUnchanged /\ HumanUnchanged
    /\ blk.pc = "leave"
    /\ blk' = [blk EXCEPT !.pc = "after",
                          !.outcome = with_outcome(blk.path, tlast.value),
                          !.recorded = Timer_record(timer) # None]
    /\ UNCHANGED <<now, timer, tlast, produced>>

----------------------------------------------------------------------------
(* The adapters (interfaces/decorators.py, mixin.py, middleware.py,        *)
(* line_profiler.py) and the Collectors they record into (SpecAdapters).   *)
(* An invocation of an adapter is two steps: the adapter starts its Timer  *)
(* and hands over to the timed work; the work ends, by a return, a raised  *)
(* failure or, when awaited, a cancellation; the adapter's finally block   *)
(* runs and the caller gets the outcome.                                   *)

default_collector == "default_collector"

\* The process-wide default and one Collector() made by the caller.
Collectors == {default_collector, "col"}

\* `collector or default_collector`: Collector defines neither __bool__ nor
\* __len__, so a Collector is true even when it holds nothing.
collector_or_default(collector) ==
    IF collector = None THEN default_collector ELSE collector[1]

\* namespace.get("_watch_collector", default_collector): the names of the
\* class body itself, not those of its bases.
namespace_get(own) == IF own = None THEN default_collector ELSE own[1]

SyncKinds == {"watch", "watch_call", "mixin", "wsgi"}
AsyncKinds == {"watch_async", "mixin_async", "asgi", "asgi_websocket"}
BlockKinds == {"watch_block"}
MixinKinds == {"mixin", "mixin_async"}
AsgiKinds == {"asgi", "asgi_websocket"}
AdapterKinds == SyncKinds \cup AsyncKinds \cup BlockKinds

\* Every adapter but AsgiMiddleware on a scope that is not http times its work.
TimedKinds == AdapterKinds \ {"asgi_websocket"}

\* How the caller names a Collector: `own` is the collector argument, or the
\* _watch_collector of the class body; `base` is the _watch_collector of a
\* watched base class of the class.
NoConf == [own |-> None, base |-> None]
Configs(kind) ==
    {NoConf, [own |-> Some("col"), base |-> None]}
        \cup (IF kind \in MixinKinds THEN {[own |-> None, base |-> Some("col")]}
              ELSE {})

\* The Collector the adapter records into.
adapter_collector(kind, conf) ==
    IF kind \in MixinKinds THEN namespace_get(conf.own)
    ELSE collector_or_default(conf.own)

\* The label: fn.__qualname__ of a function named work, "{prefix}.{attr_name}"
\* of method `method` of class Svc, _request_label("GET", "/test").
adapter_label(kind) ==
    IF kind \in MixinKinds THEN "Svc.method"
    ELSE IF kind \in {"wsgi", "asgi", "asgi_websocket"} THEN "HTTP GET /test"
    ELSE "work"

\* The context argument of the adapter's Timer.
adapter_context(kind) ==
    IF kind \in {"wsgi", "asgi", "asgi_websocket"}
    THEN Some({<<"method", "GET">>, <<"path", "/test">>})
    ELSE None

\* The ways the timed work ends.
Returns == {[path |-> "return", value |-> None],
            [path |-> "return", value |-> Some("value")]}
Raises == {[path |-> "raise", value |-> Some("ValueError")]}
Cancels == {[path |-> "cancel", value |-> Some("CancelledError")]}
WorkOutcomes(kind) ==
    IF kind \in AsyncKinds THEN Returns \cup Raises \cup Cancels
    ELSE IF kind \in BlockKinds
    THEN {[path |-> "return", value |-> None]} \cup Raises
    ELSE Returns \cup Raises

\* A faulty adapter: try/else in place of try/finally
finally_on_return(work) == work.path = "return"

\* try: ... finally: the finally block runs on every way out of the try.
finally_runs(work) == TRUE

\* A faulty adapter: except Exception: return None
adapter_delivers_swallow(kind, work) ==
    IF work.path = "return" THEN work ELSE [path |-> "return", value |-> None]

\* What the adapter's caller gets: `return fn(...)` and `return await fn(...)`
\* give the work's value, AsgiMiddleware awaits the app and returns nothing;
\* no adapter has an except clause.
adapter_delivers(kind, work) ==
    IF kind \in AsgiKinds /\ work.path = "return"
    THEN [path |-> "return", value |-> None]
    ELSE work

NoTimer == Timer_init("", None)
NoInvocation == [kind |-> "none", conf |-> NoConf, target |-> default_collector,
                 timer |-> NoTimer, last_ns |-> NoneNs]
NoWork == [path |-> "none", value |-> None]
NoDone == [kind |-> "none", conf |-> NoConf, target |-> default_collector,
           work |-> NoWork, delivered |-> NoWork, record |-> None,
           pre |-> [c \in Collectors |-> Collector_init]]

AdaptersAtRest ==
    /\ colls = [c \in Collectors |-> Collector_init]
    /\ inv = NoInvocation
    /\ done = NoDone
    /\ expected = 0
    /\ ncalls = 0

RECURSIVE TotalOver(_, _)
TotalOver(f, S) ==
    IF S = {} THEN 0
    ELSE LET c == CHOOSE c \in S : TRUE IN Len(f[c]) + TotalOver(f, S \ {c})

TotalRecords == TotalOver(colls, Collectors)

\* The readings of the clock by an adapter.  The clock ticks while the timed
\* work runs, not between calls: the reading on entry repeats the last one,
\* the reading on exit is the last one or one tick later.
EntryReadings == {now}
AdapterReadings == {clock \in ClockReadings : clock <= now + 1}

\* The call of a wrapper, of watch_call, of a middleware, or the entry of a
\* watch_block: timer = Timer(label, context).start(), then the work begins.
AdapterEnter ==
    /\ CollectorUnchanged /\ ThreadsUnchanged /\ HeldUnchanged /\ BlockUnchanged
    /\ AliasUnchanged /\ HumanUnchanged
    /\ inv.kind = "none"
    /\ ncalls < AdapterCalls
    /\ \E kind \in AdapterKinds, clock \in EntryReadings :
          \E conf \in Configs(kind) :
             /\ now' = IF kind \in TimedKinds THEN clock ELSE now
             /\ inv' = [kind |-> kind, conf |-> conf,
                        target |-> adapter_collector(kind, conf),
                        timer |-> IF kind \in TimedKinds
                                  THEN Timer_start(Timer_init(adapter_label(kind),
                                                              adapter_context(kind)),
                                                   clock)
                                  ELSE NoTimer,
                        last_ns |-> NoneNs]
    /\ done' = NoDone
    /\ UNCHANGED <<timer, tlast, produced, colls, expected, ncalls>>

\* The work ends; the finally block: record = timer.stop();
\* collector.add(record); the caller gets the outcome.
AdapterLeave ==
    /\ CollectorUnchanged /\ ThreadsUnchanged /\ HeldUnchanged /\ BlockUnchanged
    /\ AliasUnchanged /\ HumanUnchanged
    /\ inv.kind \in AdapterKinds
    /\ \E work \in WorkOutcomes(inv.kind), clock \in AdapterReadings :
          LET timed == inv.kind \in TimedKinds /\ finally_runs(work)
              record == Timer_stop_record(inv.timer, clock)
          IN /\ now' = IF timed THEN clock ELSE now
             /\ colls' = IF timed
                         THEN [colls EXCEPT ![inv.target] = Collector_add(@, record)]
                         ELSE colls
             /\ done' = [kind |-> inv.kind, conf |-> inv.conf, target |-> inv.target,
                         work |-> work,
                         delivered |-> adapter_delivers(inv.kind, work),
                         record |-> IF timed THEN Some(record) ELSE None,
                         pre |-> colls]
    /\ expected' = IF inv.kind \in TimedKinds THEN expected + 1 ELSE expected
    /\ ncalls' = IF inv.kind \in TimedKinds THEN ncalls + 1 ELSE ncalls
    /\ inv' = NoInvocation
    /\ UNCHANGED <<timer, tlast, produced>>

\* LineProfiler(session_name, collector)
ProfilerInit ==
    /\ CollectorUnchanged /\ ThreadsUnchanged /\ HeldUnchanged /\ BlockUnchanged
    /\ AliasUnchanged /\ HumanUnchanged
    /\ inv.kind = "none"
    /\ ncalls < AdapterCalls
    /\ \E conf \in Configs("line_profiler"), clock \in EntryReadings :
          /\ now' = clock
          /\ inv' = [kind |-> "line_profiler", conf |-> conf,
                     target |-> collector_or_default(conf.own),
                     timer |-> NoTimer, last_ns |-> clock]
    /\ done' = NoDone
    /\ UNCHANGED <<timer, tlast, produced, colls, expected, ncalls>>

\* prof.mark(checkpoint_name)
ProfilerMark ==
    /\ CollectorUnchanged /\ ThreadsUnchanged /\ HeldUnchanged /\ BlockUnchanged
    /\ AliasUnchanged /\ HumanUnchanged
    /\ inv.kind = "line_profiler"
    /\ ncalls < AdapterCalls
    /\ \E clock \in AdapterReadings :
          LET record == TimingRecord("session | checkpoint", inv.last_ns, clock,
                                     {<<"session", "session">>,
                                      <<"checkpoint", "checkpoint">>})
          IN /\ now' = clock
             /\ inv' = [inv EXCEPT !.last_ns = clock]
             /\ colls' = [colls EXCEPT ![inv.target] = Collector_add(@, record)]
             /\ done' = [kind |-> "mark", conf |-> inv.conf, target |-> inv.target,
                         work |-> NoWork,
                         delivered |-> [path |-> "return", value |-> Some("record")],
                         record |-> Some(record), pre |-> colls]
    /\ expected' = expected + 1
    /\ ncalls' = ncalls + 1
    /\ UNCHANGED <<timer, tlast, produced>>

\* prof.finish(): prints; adds no record and leaves the profiler as it is, so
\* that mark() may follow
ProfilerFinish ==
    /\ CollectorUnchanged /\ ThreadsUnchanged /\ HeldUnchanged /\ BlockUnchanged
    /\ AliasUnchanged /\ HumanUnchanged
    /\ inv.kind = "line_profiler"
    /\ done' = [kind |-> "finish", conf |-> inv.conf, target |-> inv.target,
                work |-> NoWork,
                delivered |-> [path |-> "return", value |-> None],
                record |-> None, pre |-> colls]
    /\ UNCHANGED <<now, timer, tlast, produced, colls, inv, expected, ncalls>>

\* The caller lets go of the profiler (`del prof`, or the end of the function
\* that made it); other adapters are called from then on.
ProfilerDrop ==
    /\ CollectorUnchanged /\ ThreadsUnchanged /\ HeldUnchanged /\ BlockUnchanged
    /\ AliasUnchanged /\ HumanUnchanged
    /\ inv.kind = "line_profiler"
    /\ inv' = NoInvocation
    /\ UNCHANGED <<now, timer, tlast, produced, colls, done, expected, ncalls>>

\* The record a caller adds by itself.
DirectRecords == {r \in CopyRecords : r.name = "a"}

\* c.add(record) by the caller, between invocations
DirectAdd ==
    /\ CollectorUnchanged /\ ThreadsUnchanged /\ HeldUnchanged /\ BlockUnchanged
    /\ AliasUnchanged /\ HumanUnchanged
    /\ inv.kind = "none"
    /\ ncalls < AdapterCalls
    /\ \E c \in Collectors, record \in DirectRecords :
          /\ colls' = [colls EXCEPT ![c] = Collector_add(@, record)]
          /\ done' = [NoDone EXCEPT !.kind = "add", !.target = c,
                                    !.record = Some(record), !.pre = colls]
    /\ expected' = expected + 1
    /\ ncalls' = ncalls + 1
    /\ UNCHANGED <<now, timer, tlast, produced, inv>>

\* c.clear() by the caller, between invocations; nanowatch.reset() when c is
\* the default collector
DirectClear ==
    /\ CollectorUnchanged /\ ThreadsUnchanged /\ HeldUnchanged /\ BlockUnchanged
    /\ AliasUnchanged /\ HumanUnchanged
    /\ inv.kind = "none"
    /\ \E c \in Collectors :
          /\ colls' = [colls EXCEPT ![c] = Collector_clear(@)]
          /\ done' = [NoDone EXCEPT !.kind = "clear", !.target = c, !.pre = colls]
          /\ expected' = expected - Len(colls[c])
    /\ UNCHANGED <<now, timer, tlast, produced, inv, ncalls>>

----------------------------------------------------------------------------
(* A Timer, the dict its caller passed as context and the record it        *)
(* produced, as the objects they are (SpecAlias).  A dict is an object:    *)
(* an attribute holds a reference to it, and a change made through one     *)
(* reference is seen through every other.                                  *)

\* The dict the caller built, and the dict `{}` of `context or {}`.
Refs == {"d_arg", "d_new"}

\* `context or {}` on references: None and an empty dict are falsy and give
\* the new dict; any other dict is kept, the same object.
context_or_new(context) ==
    IF context = None \/ heap[context[1]] = EmptyDict THEN "d_new" ELSE context[1]

\* d[key] = value
dict_setitem(d, key, value) == {p \in d : p[1] # key} \cup {<<key, value>>}

\* A record as its reader sees it: the context is the dict the reference leads to.
Deref(r) == [r EXCEPT !.context = heap[r.context]]

\* Timer(name, context): the Timer holds a reference to its context.
AliasTimer(name, context) ==
    [name |-> name, context |-> context_or_new(context),
     start_ns |-> NoneNs, record |-> None]

\* The dicts a test passes: none, an empty one, one with an entry.
AliasAtRest ==
    /\ heap = [ref \in Refs |-> EmptyDict]
    /\ ali = [passed |-> None, timer |-> AliasTimer("test", None),
              rec |-> None, snap |-> None, stored |-> FALSE]

InitAlias ==
    /\ \E d \in {c[1] : c \in TimerContexts \ {None}} :
          heap = [ref \in Refs |-> IF ref = "d_arg" THEN d ELSE EmptyDict]
    /\ \E name \in TimerNames, passed \in {None, Some("d_arg")} :
          ali = [passed |-> passed, timer |-> AliasTimer(name, passed),
                 rec |-> None, snap |-> None, stored |-> FALSE]

\* timer.start()
AliasStart ==
    /\ CollectorUnchanged /\ ThreadsUnchanged /\ HeldUnchanged /\ BlockUnchanged
    /\ AdaptersUnchanged /\ HumanUnchanged
    /\ \E clock \in ClockReadings :
          /\ now' = clock
          /\ ali' = [ali EXCEPT !.timer = Timer_start(@, clock)]
    /\ UNCHANGED <<timer, tlast, produced, heap>>

\* record = timer.stop(), by a caller that has started the Timer: the record
\* holds the reference the Timer holds
AliasStop ==
    /\ CollectorUnchanged /\ ThreadsUnchanged /\ HeldUnchanged /\ BlockUnchanged
    /\ AdaptersUnchanged /\ HumanUnchanged
    /\ ali.rec = None
    /\ ali.timer.start_ns # NoneNs
    /\ \E clock \in ClockReadings :
          /\ now' = clock
          /\ ali' = [ali EXCEPT !.timer = Timer_stop(@, clock),
                                !.rec = Some(Timer_stop_record(ali.timer, clock)),
                                !.snap = Some(Deref(Timer_stop_record(ali.timer, clock)))]
    /\ UNCHANGED <<timer, tlast, produced, heap>>

\* collector.add(record): the Collector holds a reference to the record
AliasAdd ==
    /\ CollectorUnchanged /\ ThreadsUnchanged /\ HeldUnchanged /\ BlockUnchanged
    /\ AdaptersUnchanged /\ HumanUnchanged
    /\ ali.rec # None
    /\ ~ali.stored
    /\ ali' = [ali EXCEPT !.stored = TRUE]
    /\ UNCHANGED <<now, timer, tlast, produced, heap>>

\* collector.clear(): drops the reference
AliasClear ==
    /\ CollectorUnchanged /\ ThreadsUnchanged /\ HeldUnchanged /\ BlockUnchanged
    /\ AdaptersUnchanged /\ HumanUnchanged
    /\ ali.stored
    /\ ali' = [ali EXCEPT !.stored = FALSE]
    /\ UNCHANGED <<now, timer, tlast, produced, heap>>

\* The caller changes the dict it passed: d[key] = "v2"
SetItemPassed ==
    /\ CollectorUnchanged /\ ThreadsUnchanged /\ HeldUnchanged /\ BlockUnchanged
    /\ AdaptersUnchanged /\ HumanUnchanged
    /\ ali.passed # None
    /\ \E key \in {"k", "k2"} :
          heap' = [heap EXCEPT ![ali.passed[1]] = dict_setitem(@, key, "v2")]
    /\ UNCHANGED <<now, timer, tlast, produced, ali>>

\* The caller changes the Timer's context: timer.context[key] = "v2"
SetItemTimer ==
    /\ CollectorUnchanged /\ ThreadsUnchanged /\ HeldUnchanged /\ BlockUnchanged
    /\ AdaptersUnchanged /\ HumanUnchanged
    /\ \E key \in {"k", "k2"} :
          heap' = [heap EXCEPT ![ali.timer.context] = dict_setitem(@, key, "v2")]
    /\ UNCHANGED <<now, timer, tlast, produced, ali>>

\* The caller renames the Timer: timer.name = "renamed"
TimerRename ==
    /\ CollectorUnchanged /\ ThreadsUnchanged /\ HeldUnchanged /\ BlockUnchanged
    /\ AdaptersUnchanged /\ HumanUnchanged
    /\ ali' = [ali EXCEPT !.timer.name = "renamed"]
    /\ UNCHANGED <<now, timer, tlast, produced, heap>>

----------------------------------------------------------------------------
(* TimingRecord.best_human_duration (SpecHuman).  A returned value is the  *)
(* integer `scaled` with `decimals` digits after the point: (1.001, "us")  *)
(* is scaled 1001, decimals 3, unit "us".                                  *)

NsPerUs == 1000             \* duration_us: duration_ns / 1_000
NsPerMs == 1000000          \* duration_ms: duration_ns / 1_000_000
NsPerS == 1000000000        \* duration_s: duration_ns / 1_000_000_000
UnitLimit == 1000           \* each test of best_human_duration: ... < 1_000

\* A faulty test: duration_ns / per <= 1_000
at_most_limit(ns, per) == ns <= UnitLimit * per

\* duration_ns / per < 1_000; the quotient of two integers below 2^53 is the
\* double nearest to the exact quotient, which is below 1000 exactly when
\* duration_ns < 1000 * per.
below_limit(ns, per) == ns < UnitLimit * per

\* round(duration_ns / per, decimals), in units of 10^-decimals: step is
\* per / 10^decimals, the nanoseconds in one such unit.
round_scaled(ns, per, step) == RoundNearest(ns, per, step)

\* The first line reads self.duration_ns, a TypeError for a record with no
\* start_ns.
best_human_duration(r) ==
    IF duration_ns_raises(r) THEN Raised("TypeError")
    ELSE IF below_limit(duration_ns(r), 1)
    THEN [unit |-> "ns", scaled |-> duration_ns(r), decimals |-> 0]
    ELSE IF below_limit(duration_ns(r), NsPerUs)
    THEN [unit |-> "us", decimals |-> 3,
          scaled |-> round_scaled(duration_ns(r), NsPerUs, NsPerUs \div 1000)]
    ELSE IF below_limit(duration_ns(r), NsPerMs)
    THEN [unit |-> "ms", decimals |-> 3,
          scaled |-> round_scaled(duration_ns(r), NsPerMs, NsPerMs \div 1000)]
    ELSE [unit |-> "s", decimals |-> 6,
          scaled |-> round_scaled(duration_ns(r), NsPerS, NsPerS \div 1000000)]

\* The durations tried: those of the tests, those around each boundary, two
\* within a microsecond below the boundary of the second, one to each side
\* of the half, and four on the half, where the double decides.
HumanDurations ==
    {0, 1, 500, 5000000, 999999400, 999999600}
        \cup {2500500, 999999500, 1000000500, 1000001500}
        \cup {b + off : b \in {NsPerUs, NsPerMs, NsPerS},
                        off \in (0 - HumanOffset)..HumanOffset}

HumanRecords ==
    {TimingRecord("x", start_ns, start_ns + d, EmptyDict) :
        start_ns \in {0, 7}, d \in HumanDurations}

HumanAtRest ==
    human = [record |-> TimingRecord("x", 0, 0, EmptyDict), result |-> None]

InitHuman ==
    \E r \in HumanRecords : human = [record |-> r, result |-> None]

\* record.best_human_duration()
BestHumanDuration ==
    /\ TimerUnchanged /\ CollectorUnchanged /\ ThreadsUnchanged
    /\ HeldUnchanged /\ BlockUnchanged /\ AdaptersUnchanged /\ AliasUnchanged
    /\ human.result = None
    /\ human' = [human EXCEPT !.result = Some(best_human_duration(human.record))]

----------------------------------------------------------------------------
(* SpecProfiler: one LineProfiler (interfaces/line_profiler.py), its marks  *)
(* and another caller adding to the same Collectors.                       *)

Sessions == {"load", "save"}
Checkpoints == {"read", "parse"}

\* f"{self._session} | {checkpoint_name}"
mark_label(session, checkpoint_name) ==
    IF session = "load"
    THEN (IF checkpoint_name = "read" THEN "load | read" ELSE "load | parse")
    ELSE (IF checkpoint_name = "read" THEN "save | read" ELSE "save | parse")

\* __init__: the profiler starts at once, with the reading of the clock.
LineProfiler_init(session_name, collector, clock) ==
    [session |-> session_name, collector |-> collector_or_default(collector),
     last_ns |-> clock, marks |-> <<>>]

\* The record mark() constructs.
LineProfiler_mark_record(p, checkpoint_name, now_ns) ==
    TimingRecord(mark_label(p.session, checkpoint_name), p.last_ns, now_ns,
                 {<<"session", p.session>>, <<"checkpoint", checkpoint_name>>})

\* A faulty mark(): leaves _last_ns at the time of construction
LineProfiler_mark_stale(p, checkpoint_name, now_ns) ==
    [p EXCEPT !.marks = Append(@, checkpoint_name)]

\* mark(): self._last_ns = now_ns; self._marks.append(checkpoint_name)
LineProfiler_mark(p, checkpoint_name, now_ns) ==
    [p EXCEPT !.last_ns = now_ns, !.marks = Append(@, checkpoint_name)]

\* A faulty finish(): counts the segment that ends at finish()
LineProfiler_finish_segments(p) == Len(p.marks) + 1

\* finish(): the number of checkpoints it prints, len(self._marks).
LineProfiler_finish(p) == Len(p.marks)

\* What a call on the profiler did: the value returned, the count printed,
\* and the Collectors and _last_ns before the call.
ProfilerCall(kind, value, reported) ==
    [kind |-> kind, value |-> value, reported |-> reported, pre |-> colls,
     prelast |-> IF inv.kind = "profiler" THEN inv.prof.last_ns ELSE NoneNs]

\* prof = LineProfiler(session_name, collector); t0 and times keep the clock
\* readings of the construction and of the marks.
LineProfilerInit ==
    /\ CollectorUnchanged /\ ThreadsUnchanged /\ HeldUnchanged /\ BlockUnchanged
    /\ AliasUnchanged /\ HumanUnchanged
    /\ inv.kind = "none"
    /\ \E session_name \in Sessions, conf \in Configs("line_profiler"),
          clock \in AdapterReadings :
          /\ now' = clock
          /\ inv' = [kind |-> "profiler",
                     prof |-> LineProfiler_init(session_name, conf.own, clock),
                     t0 |-> clock, times |-> <<>>]
    /\ done' = ProfilerCall("init", None, 0)
    /\ UNCHANGED <<timer, tlast, produced, colls, expected, ncalls>>

\* prof.mark(checkpoint_name)
LineProfilerMark ==
    /\ CollectorUnchanged /\ ThreadsUnchanged /\ HeldUnchanged /\ BlockUnchanged
    /\ AliasUnchanged /\ HumanUnchanged
    /\ inv.kind = "profiler"
    /\ Len(inv.prof.marks) < MaxMarks
    /\ \E checkpoint_name \in Checkpoints, now_ns \in AdapterReadings :
          LET record == LineProfiler_mark_record(inv.prof, checkpoint_name, now_ns)
          IN /\ now' = now_ns
             /\ inv' = [inv EXCEPT
                           !.prof = LineProfiler_mark(@, checkpoint_name, now_ns),
                           !.times = Append(@, now_ns)]
             /\ colls' = [colls EXCEPT
                             ![inv.prof.collector] = Collector_add(@, record)]
             /\ done' = ProfilerCall("mark", Some(record), 0)
    /\ expected' = expected + 1
    /\ UNCHANGED <<timer, tlast, produced, ncalls>>

\* prof.finish(): prints the session name and the number of checkpoints
LineProfilerFinish ==
    /\ CollectorUnchanged /\ ThreadsUnchanged /\ HeldUnchanged /\ BlockUnchanged
    /\ AliasUnchanged /\ HumanUnchanged
    /\ inv.kind = "profiler"
    /\ done' = ProfilerCall("finish", None, LineProfiler_finish(inv.prof))
    /\ UNCHANGED <<now, timer, tlast, produced, colls, inv, expected, ncalls>>

\* c.add(record) by another caller, on either Collector
OtherAdd ==
    /\ CollectorUnchanged /\ ThreadsUnchanged /\ HeldUnchanged /\ BlockUnchanged
    /\ AliasUnchanged /\ HumanUnchanged
    /\ ncalls < AdapterCalls
    /\ \E c \in Collectors, record \in DirectRecords :
          colls' = [colls EXCEPT ![c] = Collector_add(@, record)]
    /\ done' = ProfilerCall("add", None, 0)
    /\ ncalls' = ncalls + 1
    /\ UNCHANGED <<now, timer, tlast, produced, inv, expected>>

----------------------------------------------------------------------------
(* SpecAsgi: AsgiMiddleware (interfaces/middleware.py) called with scopes  *)
(* of every type.                                                          *)

\* An ASGI scope: a dict in which each of the keys type, method and path is
\* present (Some) or missing (None).
ScopeTypes == {"http", "websocket", "lifespan"}
ScopeMethods == {"GET", "POST"}
ScopePaths == {"/submit"}
OptionOf(S) == {None} \cup {Some(x) : x \in S}
Scopes ==
    [type : OptionOf(ScopeTypes), method : OptionOf(ScopeMethods),
     path : OptionOf(ScopePaths)]

\* scope.get(key, default)
scope_get(scope, key, default) ==
    IF scope[key] = None THEN default ELSE scope[key][1]

\* f"HTTP {method} {path}"
request_label(method, path) ==
    IF path = "/submit"
    THEN (IF method = "GET" THEN "HTTP GET /submit"
          ELSE IF method = "POST" THEN "HTTP POST /submit"
          ELSE "HTTP UNKNOWN /submit")
    ELSE (IF method = "GET" THEN "HTTP GET /"
          ELSE IF method = "POST" THEN "HTTP POST /"
          ELSE "HTTP UNKNOWN /")

\* A faulty check: times every scope that has a type
scope_has_type(scope) == scope_get(scope, "type", "") # ""

\* The negation of `scope.get("type") != "http"`.
scope_is_http(scope) == scope_get(scope, "type", "") = "http"

\* Timer(label, context={"method": method, "path": path}).start()
asgi_timer(scope, clock) ==
    LET method == scope_get(scope, "method", "UNKNOWN")
        path == scope_get(scope, "path", "/")
    IN Timer_start(Timer_init(request_label(method, path),
                              Some({<<"method", method>>, <<"path", path>>})),
                   clock)

\* await wrapped(scope, receive, send), up to the await of the inner
\* application: on either branch the application is awaited once.
AsgiCall ==
    /\ CollectorUnchanged /\ ThreadsUnchanged /\ HeldUnchanged /\ BlockUnchanged
    /\ AliasUnchanged /\ HumanUnchanged
    /\ inv.kind = "none"
    /\ ncalls < AdapterCalls
    /\ \E scope \in Scopes, conf \in Configs("asgi"), clock \in EntryReadings :
          /\ now' = clock
          /\ inv' = [kind |-> "asgi", scope |-> scope,
                     collector |-> collector_or_default(conf.own),
                     timed |-> scope_is_http(scope),
                     timer |-> IF scope_is_http(scope) THEN asgi_timer(scope, clock)
                               ELSE NoTimer,
                     forwards |-> 1]
    /\ done' = NoDone
    /\ ncalls' = ncalls + 1
    /\ UNCHANGED <<timer, tlast, produced, colls, expected>>

\* The inner application ends: on the pass-through branch `return`, on the
\* http branch the finally block, record = timer.stop(); collector.add(record).
AsgiReturn ==
    /\ CollectorUnchanged /\ ThreadsUnchanged /\ HeldUnchanged /\ BlockUnchanged
    /\ AliasUnchanged /\ HumanUnchanged
    /\ inv.kind = "asgi"
    /\ \E work \in WorkOutcomes("asgi"), clock \in AdapterReadings :
          LET record == Timer_stop_record(inv.timer, clock)
          IN /\ now' = clock
             /\ colls' = IF inv.timed /\ finally_runs(work)
                         THEN [colls EXCEPT ![inv.collector] = Collector_add(@, record)]
                         ELSE colls
             /\ done' = [kind |-> "asgi", scope |-> inv.scope,
                         collector |-> inv.collector, forwards |-> inv.forwards,
                         work |-> work, delivered |-> adapter_delivers("asgi", work),
                         record |-> IF inv.timed /\ finally_runs(work)
                                    THEN Some(record) ELSE None,
                         pre |-> colls]
    /\ expected' = IF inv.timed THEN expected + 1 ELSE expected
    /\ inv' = NoInvocation
    /\ UNCHANGED <<timer, tlast, produced, ncalls>>

----------------------------------------------------------------------------
(* SpecMixin: classes made by WatchedMeta (interfaces/mixin.py) and calls  *)
(* of their attributes.                                                    *)

\* The class statement `class Svc(Base): ...`: collector and prefix say where
\* _watch_collector and _watch_prefix are assigned, in the class body itself
\* (own) or in a watched base class (base).
ClassName == "Svc"
PrefixConfigs == {None, Some("Custom")}
ClassDefs == [collector : Configs("mixin"), prefix : PrefixConfigs]

\* The attributes of the class body: a name and the kind of object bound to it.
AttrNames == {"work", "_private"}
AttrKinds == {"function", "async_function", "staticmethod", "classmethod"}
Attrs == [name : AttrNames, kind : AttrKinds]

\* name.startswith("_")
startswith_underscore(name) == name = "_private"

\* callable(value): functions are callable, and staticmethod objects since
\* Python 3.10; classmethod objects are not.
callable(kind) == kind # "classmethod"

\* _is_measurable_method(name, value)
is_measurable_method(attr) ==
    callable(attr.kind) /\ ~startswith_underscore(attr.name)

\* prefix = namespace.get("_watch_prefix", name)
watch_prefix(cls) == IF cls.prefix = None THEN ClassName ELSE cls.prefix[1]

\* label = f"{prefix}.{attr_name}"
method_label(prefix, attr_name) ==
    IF prefix = "Custom"
    THEN (IF attr_name = "work" THEN "Custom.work" ELSE "Custom._private")
    ELSE (IF attr_name = "work" THEN "Svc.work" ELSE "Svc._private")

\* inspect.iscoroutinefunction(method) chooses the async wrapper.
MethodOutcomes(attr) ==
    IF attr.kind = "async_function" THEN WorkOutcomes("mixin_async")
    ELSE WorkOutcomes("mixin")

\* A call of an attribute of the class: an instrumented one enters timed(),
\* timer = Timer(label).start(); any other runs as it was written.
MixinCall ==
    /\ CollectorUnchanged /\ ThreadsUnchanged /\ HeldUnchanged /\ BlockUnchanged
    /\ AliasUnchanged /\ HumanUnchanged
    /\ inv.kind = "none"
    /\ ncalls < AdapterCalls
    /\ \E cls \in ClassDefs, attr \in Attrs, clock \in EntryReadings :
          /\ now' = clock
          /\ inv' = [kind |-> "mixin_call", cls |-> cls, attr |-> attr,
                     wrapped |-> is_measurable_method(attr),
                     collector |-> namespace_get(cls.collector.own),
                     timer |-> IF is_measurable_method(attr)
                               THEN Timer_start(
                                        Timer_init(method_label(watch_prefix(cls),
                                                                attr.name), None),
                                        clock)
                               ELSE NoTimer]
    /\ done' = NoDone
    /\ ncalls' = ncalls + 1
    /\ UNCHANGED <<timer, tlast, produced, colls, expected>>

\* The method ends; in timed() the finally block: record = timer.stop();
\* collector.add(record).
MixinReturn ==
    /\ CollectorUnchanged /\ ThreadsUnchanged /\ HeldUnchanged /\ BlockUnchanged
    /\ AliasUnchanged /\ HumanUnchanged
    /\ inv.kind = "mixin_call"
    /\ \E work \in MethodOutcomes(inv.attr), clock \in AdapterReadings :
          LET record == Timer_stop_record(inv.timer, clock)
              timed == inv.wrapped /\ finally_runs(work)
          IN /\ now' = clock
             /\ colls' = IF timed
                         THEN [colls EXCEPT ![inv.collector] = Collector_add(@, record)]
                         ELSE colls
             /\ done' = [kind |-> "mixin_call", cls |-> inv.cls, attr |-> inv.attr,
                         collector |-> inv.collector, work |-> work,
                         record |-> IF timed THEN Some(record) ELSE None,
                         pre |-> colls]
    /\ expected' = IF inv.wrapped THEN expected + 1 ELSE expected
    /\ inv' = NoInvocation
    /\ UNCHANGED <<timer, tlast, produced, ncalls>>

----------------------------------------------------------------------------
(* SpecWatch: threads that call functions decorated with @watch            *)
(* (interfaces/decorators.py), all recording into one Collector.  A        *)
(* decorated function may call another one, so timed regions nest.  In the *)
(* wrapper's finally block `record = timer.stop()` and                     *)
(* `collector.add(record)` are two statements: another thread may run      *)
(* between them.  A thread's locals: acc is the stack of its running       *)
(* Timers, result the record stop() returned, k its finished calls.        *)

\* fn.__qualname__ of the function thread t calls at nesting depth d.
watch_name(t, depth) ==
    IF depth = 1
    THEN (IF t = 1 THEN "outer1" ELSE IF t = 2 THEN "outer2" ELSE "outer3")
    ELSE (IF t = 1 THEN "inner1" ELSE IF t = 2 THEN "inner2" ELSE "inner3")

\* Thread t calls a decorated function: timer = Timer(name).start()
WatchEnter(t) ==
    /\ OutsideUnchanged /\ UNCHANGED <<timer, tlast, produced>>
    /\ UNCHANGED <<records, added, last, hist, cleared, snaps>>
    /\ pc[t] = "idle"
    /\ Len(loc[t].acc) < MaxDepth
    /\ loc[t].k + Len(loc[t].acc) < WatchCalls
    /\ \E clock \in AdapterReadings :
          /\ now' = clock
          /\ loc' = [loc EXCEPT ![t].acc =
                        Append(@, Timer_start(
                                      Timer_init(watch_name(t, Len(@) + 1), None),
                                      clock))]
    /\ UNCHANGED pc

\* The innermost function of thread t has ended: record = timer.stop()
WatchStop(t) ==
    /\ OutsideUnchanged /\ UNCHANGED <<timer, tlast, produced>>
    /\ UNCHANGED <<records, added, last, hist, cleared, snaps>>
    /\ pc[t] = "idle"
    /\ loc[t].acc # <<>>
    /\ \E clock \in AdapterReadings :
          LET running == loc[t].acc[Len(loc[t].acc)]
          IN /\ now' = clock
             /\ loc' = [loc EXCEPT
                           ![t].acc = SubSeq(@, 1, Len(@) - 1),
                           ![t].result =
                               Timer_record(Timer_stop(running, clock))]
    /\ pc' = [pc EXCEPT ![t] = "stopped"]

\* Thread t: collector.add(record), and the wrapper returns.
WatchAdd(t) ==
    /\ OutsideUnchanged /\ TimerUnchanged
    /\ UNCHANGED <<added, last, hist, cleared, snaps>>
    /\ pc[t] = "stopped"
    /\ records' = Collector_add(records, loc[t].result[1])
    /\ loc' = [loc EXCEPT ![t].result = None, ![t].k = @ + 1]
    /\ pc' = [pc EXCEPT ![t] = "idle"]

----------------------------------------------------------------------------
(* SpecSummary: print_summary(collector) (output/formatter.py) in one       *)
(* thread while writer threads call add() and another thread calls clear(). *)
(* print_summary makes separate calls on the Collector: all(), grouped(),   *)
(* and stats(name) for each group of more than one record.  all() copies    *)
(* the list in one step; grouped() and the by_name() inside stats() loop    *)
(* over self._records one element per step, as in SpecConc, and other       *)
(* threads may run between any two steps.  The locals of the summary        *)
(* thread: records, grouped and keys (the dict and the order of its keys),  *)
(* i the groups printed, name and acc the argument and list of the running  *)
(* by_name(), j the index of the running loop, handed the stats values      *)
(* given to _format_stats_block.                                            *)

\* groups[record.name] inserts the key when the name is new: the keys of a
\* dict stay in the order of their insertion.
dict_keys_step(keys, r) ==
    IF \E k \in 1..Len(keys) : keys[k] = r.name THEN keys ELSE Append(keys, r.name)

\* _format_stats_block(name, stats) reads stats["avg_ns"]: on None that is a
\* TypeError.
format_stats_block_fails(stats) == stats = None

\* records = collector.all(); `if not records`: the notice is printed and
\* print_summary returns.  Otherwise the header is printed and grouped() is
\* called: groups = defaultdict(list).
SummaryAll ==
    /\ TimerUnchanged /\ OutsideUnchanged /\ UNCHANGED <<added, last, hist>>
    /\ pc[ReaderId] = "idle"
    /\ loc' = [loc EXCEPT ![ReaderId] =
                  [op |-> "print_summary", records |-> Collector_all(records),
                   grouped |-> EmptyGroups, keys |-> <<>>, i |-> 0,
                   name |-> "", acc |-> <<>>, j |-> 0, handed |-> <<>>]]
    /\ pc' = [pc EXCEPT ![ReaderId] =
                 IF Collector_all(records) = <<>> THEN "done" ELSE "grouped"]
    /\ UNCHANGED <<records, snaps, cleared>>

\* grouped(): the loop takes the next element of self._records.
SummaryGroupedIter ==
    /\ TimerUnchanged /\ OutsideUnchanged /\ UNCHANGED <<added, last, hist>>
    /\ pc[ReaderId] = "grouped"
    /\ loc[ReaderId].j < Len(records)
    /\ LET me == loc[ReaderId]
           r == records[me.j + 1]
       IN loc' = [loc EXCEPT ![ReaderId].j = me.j + 1,
                             ![ReaderId].grouped = grouped_step(me.grouped, r),
                             ![ReaderId].keys = dict_keys_step(me.keys, r)]
    /\ UNCHANGED <<records, pc, snaps, cleared>>

\* grouped(): the list iterator is exhausted, grouped() returns and the loop
\* over grouped.items() begins.
SummaryGroupedReturn ==
    /\ TimerUnchanged /\ OutsideUnchanged /\ UNCHANGED <<added, last, hist>>
    /\ pc[ReaderId] = "grouped"
    /\ loc[ReaderId].j >= Len(records)
    /\ pc' = [pc EXCEPT ![ReaderId] = "groups"]
    /\ UNCHANGED <<records, loc, snaps, cleared>>

\* One turn of `for name, group in grouped.items()`: a group of one record is
\* printed as a line; otherwise collector.stats(name) is called, and its
\* by_name(name) begins.  After the last group the totals are printed.
SummaryGroup ==
    /\ TimerUnchanged /\ OutsideUnchanged /\ UNCHANGED <<added, last, hist>>
    /\ pc[ReaderId] = "groups"
    /\ LET me == loc[ReaderId]
           name == me.keys[me.i + 1]
       IN IF me.i >= Len(me.keys)
          THEN /\ pc' = [pc EXCEPT ![ReaderId] = "done"]
               /\ UNCHANGED loc
          ELSE IF Len(me.grouped[name]) = 1
          THEN /\ loc' = [loc EXCEPT ![ReaderId].i = me.i + 1]
               /\ UNCHANGED pc
          ELSE /\ loc' = [loc EXCEPT ![ReaderId].name = name,
                                     ![ReaderId].acc = <<>>,
                                     ![ReaderId].j = 0]
               /\ pc' = [pc EXCEPT ![ReaderId] = "stats"]
    /\ UNCHANGED <<records, snaps, cleared>>

\* stats(name): the loop of by_name(name) takes the next element of
\* self._records.
SummaryStatsIter ==
    /\ TimerUnchanged /\ OutsideUnchanged /\ UNCHANGED <<added, last, hist>>
    /\ pc[ReaderId] = "stats"
    /\ loc[ReaderId].j < Len(records)
    /\ LET me == loc[ReaderId]
       IN loc' = [loc EXCEPT ![ReaderId].j = me.j + 1,
                             ![ReaderId].acc =
                                 by_name_step(me.acc, records[me.j + 1], me.name)]
    /\ UNCHANGED <<records, pc, snaps, cleared>>

\* stats(name): the list iterator is exhausted; stats() returns None for no
\* match and the statistics otherwise, and the value is handed to
\* _format_stats_block.
SummaryStatsReturn ==
    /\ TimerUnchanged /\ OutsideUnchanged /\ UNCHANGED <<added, last, hist>>
    /\ pc[ReaderId] = "stats"
    /\ loc[ReaderId].j >= Len(records)
    /\ LET me == loc[ReaderId]
           stats == stats_of(me.acc)
       IN /\ loc' = [loc EXCEPT ![ReaderId].i = me.i + 1,
                                ![ReaderId].handed = Append(@, stats)]
          /\ pc' = [pc EXCEPT ![ReaderId] =
                       IF format_stats_block_fails(stats)
                       THEN "TypeError" ELSE "groups"]
    /\ UNCHANGED <<records, snaps, cleared>>

\* The variables beyond the Timer, the Collector and its threads, at rest.
OutsideAtRest ==
    /\ HeldAtRest /\ BlockAtRest /\ AdaptersAtRest /\ AliasAtRest
    /\ HumanAtRest

Init == InitTimer /\ CollectorAtRest /\ ThreadsAtRest /\ OutsideAtRest

Next == Start \/ Stop \/ Enter \/ Exit

SpecTimer == Init /\ [][Next]_vars

InitCollector == TimerAtRest /\ CollectorAtRest /\ ThreadsAtRest /\ OutsideAtRest

NextCollector ==
    \/ Add \/ Clear \/ All \/ ByName \/ Grouped \/ Stats
    \/ Watch \/ PrintSummary \/ SaveToFile \/ Reset

SpecCollector == InitCollector /\ [][NextCollector]_vars

\* N writers and the main thread that joins them.
InitWriters ==
    /\ TimerAtRest
    /\ CollectorAtRest
    /\ pc = [t \in Threads |->
                IF t \in Writers THEN "idle"
                ELSE IF t = ReaderId THEN "join" ELSE "off"]
    /\ loc = [t \in Threads |-> NoLocals]
    /\ snaps = {Collector_init}
    /\ OutsideAtRest

NextWriters == (\E t \in Writers : AddCall(t) \/ AddAppend(t)) \/ JoinAll

SpecWriters == InitWriters /\ [][NextWriters]_vars

\* N writers, a thread that clears and a thread that reads.
InitConc ==
    /\ TimerAtRest
    /\ CollectorAtRest
    /\ pc = [t \in Threads |-> "idle"]
    /\ loc = [t \in Threads |-> NoLocals]
    /\ snaps = {Collector_init}
    /\ OutsideAtRest

NextConc ==
    \/ \E t \in Writers : AddCall(t) \/ AddAppend(t)
    \/ ClearCall \/ ReadAll \/ ReadCall \/ ReadIter \/ ReadReturn

SpecConc == InitConc /\ [][NextConc]_vars

\* One Timer used in one with-block.
InitWith == InitTimer /\ CollectorAtRest /\ ThreadsAtRest /\ OutsideAtRest

NextWith == WithEnter \/ WithBody \/ WithExit \/ WithLeave

SpecWith == InitWith /\ [][NextWith]_vars

\* The adapters, called one at a time, and two Collectors.
InitAdapters == TimerAtRest /\ CollectorAtRest /\ ThreadsAtRest /\ OutsideAtRest

NextAdapters ==
    \/ AdapterEnter \/ AdapterLeave
    \/ ProfilerInit \/ ProfilerMark \/ ProfilerFinish \/ ProfilerDrop
    \/ DirectAdd \/ DirectClear

SpecAdapters == InitAdapters /\ [][NextAdapters]_vars

\* One Timer, its context and its record as objects.
InitAliasing ==
    /\ TimerAtRest /\ CollectorAtRest /\ ThreadsAtRest
    /\ HeldAtRest /\ BlockAtRest /\ AdaptersAtRest /\ HumanAtRest
    /\ InitAlias

NextAliasing ==
    \/ AliasStart \/ AliasStop \/ AliasAdd \/ AliasClear
    \/ SetItemPassed \/ SetItemTimer \/ TimerRename

SpecAlias == InitAliasing /\ [][NextAliasing]_vars

\* One TimingRecord and one call of best_human_duration().
InitHumanDuration ==
    /\ TimerAtRest /\ CollectorAtRest /\ ThreadsAtRest
    /\ HeldAtRest /\ BlockAtRest /\ AdaptersAtRest /\ AliasAtRest
    /\ InitHuman

NextHuman == BestHumanDuration

SpecHuman == InitHumanDuration /\ [][NextHuman]_vars

\* One LineProfiler and a caller adding records of its own.
InitProfiler == TimerAtRest /\ CollectorAtRest /\ ThreadsAtRest /\ OutsideAtRest

NextProfiler ==
    \/ LineProfilerInit \/ LineProfilerMark \/ LineProfilerFinish \/ OtherAdd

SpecProfiler == InitProfiler /\ [][NextProfiler]_vars

\* AsgiMiddleware, one call at a time.
InitAsgi == TimerAtRest /\ CollectorAtRest /\ ThreadsAtRest /\ OutsideAtRest

NextAsgi == AsgiCall \/ AsgiReturn

SpecAsgi == InitAsgi /\ [][NextAsgi]_vars

\* Classes using WatchedMixin, one call at a time.
InitMixin == TimerAtRest /\ CollectorAtRest /\ ThreadsAtRest /\ OutsideAtRest

NextMixin == MixinCall \/ MixinReturn

SpecMixin == InitMixin /\ [][NextMixin]_vars

\* N threads calling decorated functions that record into one Collector.
InitWatch ==
    /\ TimerAtRest
    /\ CollectorAtRest
    /\ pc = [t \in Threads |-> IF t \in Writers THEN "idle" ELSE "off"]
    /\ loc = [t \in Threads |-> NoLocals]
    /\ snaps = {Collector_init}
    /\ OutsideAtRest

NextWatch == \E t \in Writers : WatchEnter(t) \/ WatchStop(t) \/ WatchAdd(t)

SpecWatch == InitWatch /\ [][NextWatch]_vars

\* N writers, a thread that clears and a thread that prints the summary.
InitSummary ==
    /\ TimerAtRest
    /\ CollectorAtRest
    /\ pc = [t \in Threads |-> "idle"]
    /\ loc = [t \in Threads |-> NoLocals]
    /\ snaps = {Collector_init}
    /\ OutsideAtRest

NextSummary ==
    \/ \E t \in Writers : AddCall(t) \/ AddAppend(t)
    \/ ClearCall
    \/ SummaryAll \/ SummaryGroupedIter \/ SummaryGroupedReturn
    \/ SummaryGroup \/ SummaryStatsIter \/ SummaryStatsReturn

SpecSummary == InitSummary /\ [][NextSummary]_vars

\* One Collector and a caller that keeps a list all() returned.
InitCopy == TimerAtRest /\ CollectorAtRest /\ ThreadsAtRest /\ OutsideAtRest

NextCopy == CopyAll \/ HeldAppend \/ HeldPop \/ HeldReverse \/ CopyAdd \/ CopyClear

SpecCopy == InitCopy /\ [][NextCopy]_vars

----------------------------------------------------------------------------
(* Claims about the Timer (SpecTimer).                                     *)

\* C1: stop() on a Timer that is not running (idle or stopped) fails with a
\* usage error at that call, returns no record and stores none; so no record a
\* Timer produces has a missing start timestamp.
C1_StopOnNonRunningFails ==
    /\ (tlast.op = "stop" /\ tlast.pre # "running") =>
          /\ tlast.raised
          /\ timer.record = tlast.prerecord
    /\ \A i \in 1..Len(produced) : produced[i].start_ns # NoneNs

\* C2: start() on a Timer that is not idle (running or stopped) fails with a
\* usage error and does not restart the Timer; a start() that succeeds was
\* made on an idle Timer, leaves it running and returns the Timer itself.
C2_StartOnNonIdleFails ==
    /\ (tlast.op = "start" /\ tlast.pre # "idle") =>
          /\ tlast.raised
          /\ timer.start_ns = tlast.prestart
    /\ (tlast.op = "start" /\ ~tlast.raised) =>
          /\ tlast.pre = "idle"
          /\ tlast.value = "self"
          /\ TimerState(timer) = "running"

\* C3: over any sequence of start/stop/__enter__/__exit__ calls one Timer
\* produces at most one record, and once Timer.record is set no later call
\* changes it.
C3_AtMostOneRecord ==
    /\ Len(produced) <= 1
    /\ tlast.prerecord # None => Timer_record(timer) = tlast.prerecord

----------------------------------------------------------------------------
(* What the queries are to return, stated on the stored sequence without   *)
(* the code's loops.                                                       *)

\* The positions of the records named name.
MatchIdx(recs, name) == {i \in 1..Len(recs) : recs[i].name = name}

\* The k-th smallest element of a set of positions.
Kth(S, k) == CHOOSE i \in S : Cardinality({j \in S : j < i}) = k - 1

\* The records named name, in stored order.
Matching(recs, name) ==
    [k \in 1..Cardinality(MatchIdx(recs, name)) |-> recs[Kth(MatchIdx(recs, name), k)]]

RECURSIVE SumDurations(_, _)
SumDurations(recs, S) ==
    IF S = {} THEN 0
    ELSE LET i == CHOOSE j \in S : TRUE
         IN duration_ns(recs[i]) + SumDurations(recs, S \ {i})

Position(seq, x) == CHOOSE i \in 1..Len(seq) : seq[i] = x

----------------------------------------------------------------------------
(* Claims about the Collector under concurrent callers.                    *)

\* C4: when N threads each call add() M times concurrently on one Collector,
\* then after all calls completed all() holds exactly N*M records, every added
\* record exactly once, and each thread's records in the order it added them.
C4_ConcurrentAddsAllKept ==
    pc[ReaderId] = "done" =>
        LET res == loc[ReaderId].result
        IN /\ Len(res) = NWriters * AddsPerThread
           /\ \A t \in Writers, k \in 1..AddsPerThread :
                 Cardinality({i \in 1..Len(res) : res[i] = WriterRecord(t, k)}) = 1
           /\ \A t \in Writers, k \in 1..(AddsPerThread - 1) :
                 Position(res, WriterRecord(t, k)) < Position(res, WriterRecord(t, k + 1))

\* C4's case: all() after the join, the adds of two threads having interleaved.
C4_Witness ==
    /\ pc[ReaderId] = "done"
    /\ Len(loc[ReaderId].result) = NWriters * AddsPerThread
    /\ loc[ReaderId].result[1].start_ns = 2
    /\ loc[ReaderId].result[2].start_ns = 1
    /\ loc[ReaderId].result[3].start_ns = 2

\* C5: a read (all, by_name, grouped, stats) that runs while other threads call
\* add() and clear() returns what that query gives on the contents the store
\* had at one single instant (here: at any instant up to the return); it never
\* returns together records that were never stored together.
C5_ReadsAreSnapshots ==
    pc[ReaderId] = "done" =>
        \E s \in snaps :
            loc[ReaderId].result = QueryOn(loc[ReaderId].op, loc[ReaderId].name, s)

----------------------------------------------------------------------------
(* Claims about the Collector called from one thread (SpecCollector).      *)

\* C6: for any sequence of add() calls with no clear() in between, all()
\* returns exactly the added records, in the order added and with the same
\* count; add() never rejects a record.
C6_AllReturnsAdded ==
    /\ last.op = "all" =>
          /\ last.value = added
          /\ Len(last.value) = Len(added)
    /\ last.op = "add" =>
          /\ Len(records) = Len(last.pre) + 1
          /\ records[Len(records)] = last.arg[1]

\* C6's case: all() after three add() calls, two of them of equal records.
C6_Witness ==
    /\ last.op = "all"
    /\ Len(added) = 3
    /\ last.value = added
    /\ added[1] = added[3]
    /\ added[1] # added[2]

\* C7: by_name(n) returns exactly the stored records whose name equals n
\* (case-sensitive), in insertion order, the empty list when there is none,
\* and leaves the Collector as it was.
C7_ByNameExact ==
    last.op = "by_name" =>
        /\ last.value = Matching(records, last.arg[1])
        /\ MatchIdx(records, last.arg[1]) = {} => last.value = <<>>
        /\ records = last.pre

\* C7's case: by_name("a") on a store that also holds a record named "A".
C7_Witness ==
    /\ last.op = "by_name"
    /\ last.arg = Some("a")
    /\ Len(records) = 3
    /\ records[2].name = "A"
    /\ last.value = <<records[1], records[3]>>
    /\ records[1] # records[3]

\* C8: after any sequence of add() and clear() calls, stats(name) returns the
\* absent value when no stored record has that name, and otherwise count,
\* total_ns, min_ns and max_ns over the durations of exactly the records that
\* by_name(name) returns at that moment; nothing is kept from earlier calls.
C8_StatsOverByName ==
    last.op = "stats" =>
        LET name == last.arg[1]
            idx == MatchIdx(records, name)
            matching == Collector_by_name(records, name)
        IN /\ matching = Matching(records, name)
           /\ idx = {} => last.value = None
           /\ idx # {} =>
                 /\ last.value # None
                 /\ last.value[1].count = Len(matching)
                 /\ last.value[1].total_ns = SumDurations(records, idx)
                 /\ \A i \in idx : last.value[1].min_ns <= duration_ns(records[i])
                 /\ \E i \in idx : last.value[1].min_ns = duration_ns(records[i])
                 /\ \A i \in idx : last.value[1].max_ns >= duration_ns(records[i])
                 /\ \E i \in idx : last.value[1].max_ns = duration_ns(records[i])

\* C8's case: a stats() call made after an earlier stats() call and a change
\* of the store, over two records of which the first is not the shortest.
C8_Witness ==
    /\ last.op = "stats"
    /\ last.afterChange
    /\ last.value # None
    /\ last.value[1].count = 2
    /\ last.value[1].min_ns = 100
    /\ last.value[1].max_ns = 300
    /\ duration_ns(Collector_by_name(records, last.arg[1])[1]) = 300

\* C9: for every non-empty group, avg_ns is floor(total_ns / count): the
\* integer a with a * count <= total_ns < (a + 1) * count.
C9_AvgIsFloor ==
    (last.op = "stats" /\ last.value # None) =>
        LET idx == MatchIdx(records, last.arg[1])
            total == SumDurations(records, idx)
            count == Cardinality(idx)
            avg == last.value[1].avg_ns
        IN /\ avg * count <= total
           /\ total < (avg + 1) * count

\* C9's cases: durations {100, 100, 101} give 100, a remainder dropped.
C9_Witness ==
    /\ last.op = "stats"
    /\ last.value # None
    /\ last.value[1].count = 3
    /\ last.value[1].total_ns = 301
    /\ last.value[1].avg_ns = 100

\* C10: grouped() returns a mapping whose keys are exactly the distinct names
\* of the records stored at the call, each with the insertion-ordered list of
\* the stored records of that name, equal to by_name(name); it is computed
\* anew on every call.
C10_GroupedExact ==
    last.op = "grouped" =>
        /\ DOMAIN last.value = {records[i].name : i \in 1..Len(records)}
        /\ \A name \in DOMAIN last.value :
              /\ last.value[name] = Matching(records, name)
              /\ last.value[name] = Collector_by_name(records, name)

\* C10's case: a grouped() call made after an earlier grouped() call and a
\* change of the store, with two names of which one has two records.
C10_Witness ==
    /\ last.op = "grouped"
    /\ last.afterChange
    /\ Len(records) = 3
    /\ DOMAIN last.value = {"a", "A"}
    /\ Len(last.value["a"]) = 2

\* A Collector just constructed and then given the records of seq, in order.
RECURSIVE FreshWith(_)
FreshWith(seq) ==
    IF seq = <<>> THEN Collector_init
    ELSE Collector_add(FreshWith(SubSeq(seq, 1, Len(seq) - 1)), seq[Len(seq)])

IsPrefix(a, b) == Len(a) <= Len(b) /\ SubSeq(b, 1, Len(a)) = a

\* C11: after clear() on a Collector holding any records, all() is [],
\* grouped() is {}, by_name(n) is [] and stats(n) is absent for every n; from
\* then on the Collector answers like a newly constructed one that was given
\* the records added since.
C11_ClearEmpties ==
    /\ last.op = "clear" =>
          /\ Collector_all(records) = <<>>
          /\ DOMAIN Collector_grouped(records) = {}
          /\ \A n \in QueryNames :
                /\ Collector_by_name(records, n) = <<>>
                /\ Collector_stats(records, n) = None
    /\ cleared =>
          /\ Collector_all(records) = Collector_all(FreshWith(added))
          /\ Collector_grouped(records) = Collector_grouped(FreshWith(added))
          /\ \A n \in QueryNames :
                Collector_stats(records, n) = Collector_stats(FreshWith(added), n)
    /\ (last.op = "all" /\ cleared) => last.value = added

\* C11's case: clear() on a Collector holding two records of different names.
C11_Witness ==
    /\ last.op = "clear"
    /\ Len(last.pre) = 2
    /\ last.pre[1].name # last.pre[2].name
    /\ records = <<>>

\* C12: the Collector is append-only: across every operation but clear() and
\* reset() (add, the queries, an adapter's call, the report, the export) the
\* store before is a prefix of the store after; and the store goes from
\* non-empty to empty only by clear() or reset().
C12_AppendOnly ==
    /\ last.op \notin {"clear", "reset", "none"} => IsPrefix(last.pre, records)
    /\ (last.op # "none" /\ last.pre # <<>> /\ records = <<>>) =>
          last.op \in {"clear", "reset"}
    /\ last.op \in {"all", "by_name", "grouped", "stats", "print_summary",
                    "save_to_file"} => records = last.pre

\* C12's case: an adapter's call on a Collector that already holds two records.
C12_Witness ==
    /\ last.op = "watch"
    /\ Len(last.pre) = 2
    /\ Len(records) = 3
    /\ IsPrefix(last.pre, records)
    /\ records[3] = last.arg[1]

\* C13: the list all() returned is an independent copy: the holder's appends,
\* removals and reorderings leave what all(), by_name(), grouped() and stats()
\* return as if they had not happened, and a later add() or clear() leaves the
\* returned list as its holder made it.
C13_AllReturnsCopy ==
    /\ Collector_all(records) = Collector_all(FreshWith(added))
    /\ Collector_grouped(records) = Collector_grouped(FreshWith(added))
    /\ \A n \in QueryNames :
          /\ Collector_by_name(records, n) = Collector_by_name(FreshWith(added), n)
          /\ Collector_stats(records, n) = Collector_stats(FreshWith(added), n)
    /\ held # None => held[1].items = held[1].own

\* C13's case: the caller changed the list it got while the Collector went on
\* to hold other records: the two differ in both directions.
C13_Witness ==
    /\ held # None
    /\ Len(held[1].items) = 2
    /\ Len(records) = 2
    /\ held[1].items[1] # records[1]
    /\ held[1].items[2] # records[2]
    /\ last.op = "add"

\* C14: a with-block on a Timer calls start() once on entering and stop() once
\* on leaving, whichever way the work ends (to its end, by an early return, by
\* a raised failure); after the block the Timer holds a record, and a failure of
\* the work reaches the caller, not suppressed, when the record exists.
C14_WithStopsOnEveryPath ==
    /\ blk.pc \in {"body", "exit"} => (blk.starts = 1 /\ blk.stops = 0)
    /\ blk.pc \in {"leave", "after"} =>
          /\ blk.starts = 1
          /\ blk.stops = 1
          /\ Len(produced) = 1
          /\ Timer_record(timer) = Some(produced[1])
    /\ blk.pc = "after" =>
          /\ blk.path = "raise" => (blk.outcome = "raised" /\ blk.recorded)
          /\ blk.path = "return" => blk.outcome = "returned"
          /\ blk.path = "normal" => blk.outcome = "completed"

\* C14's case: the work raised, the block has ended, the Timer holds the record.
C14_Witness ==
    /\ blk.pc = "after"
    /\ blk.path = "raise"
    /\ blk.outcome = "raised"
    /\ Timer_record(timer) # None
    /\ Timer_record(timer)[1].end_ns > Timer_record(timer)[1].start_ns

\* C15: every timed invocation through an adapter (a @watch-decorated sync or
\* async function, watch_block, watch_call, a WatchedMixin public method, a WSGI
\* request, an ASGI http request) adds exactly one record to its collector on
\* every way the work ends (return, raised exception, cancellation of an async
\* call), and adds none to another; k invocations leave k records.
C15_OneRecordPerInvocation ==
    /\ done.kind \in TimedKinds =>
          /\ done.record # None
          /\ colls[done.target] = Append(done.pre[done.target], done.record[1])
          /\ \A c \in Collectors \ {done.target} : colls[c] = done.pre[c]
    /\ inv.kind = "none" => TotalRecords = expected

\* C15's case: an awaited call was cancelled, after another invocation: two
\* invocations, two records.
C15_Witness ==
    /\ done.kind = "watch_async"
    /\ done.work.path = "cancel"
    /\ done.record # None
    /\ TotalOver(done.pre, Collectors) = 1
    /\ TotalRecords = 2
    /\ expected = 2

\* C16 as stated: an adapter never changes the outcome of the timed work: the
\* caller gets the value the work returned, or the failure it raised, after the
\* record has been added to the collector.
C16_OutcomeUnchanged ==
    done.kind \in AdapterKinds =>
        /\ done.delivered = done.work
        /\ done.kind \in TimedKinds =>
              colls[done.target] = Append(done.pre[done.target], done.record[1])

\* C16, the code's behaviour: every adapter gives its caller the failure the
\* work raised (or the cancellation), unchanged, after the record has been
\* added to the collector; every adapter but AsgiMiddleware gives its caller
\* the value the work returned; AsgiMiddleware returns None whatever the
\* application returned.
C16_OutcomeUnchangedButAsgiValue ==
    done.kind \in AdapterKinds =>
        /\ done.work.path # "return" => done.delivered = done.work
        /\ (done.work.path = "return" /\ done.kind \notin AsgiKinds) =>
              done.delivered = done.work
        /\ (done.work.path = "return" /\ done.kind \in AsgiKinds) =>
              done.delivered = [path |-> "return", value |-> None]
        /\ done.kind \in TimedKinds =>
              colls[done.target] = Append(done.pre[done.target], done.record[1])

\* C16's cases: a WSGI application raised and the caller got that failure, with
\* the record stored.
C16_Witness ==
    /\ done.kind = "wsgi"
    /\ done.work.path = "raise"
    /\ done.delivered = done.work
    /\ done.record # None
    /\ colls[done.target] = <<done.record[1]>>

\* The Collector the caller named: the argument, or the class attribute
\* _watch_collector as Python looks it up (the class, then its bases), or
\* else the default.
NamedCollector(conf) ==
    IF conf.own # None THEN conf.own[1]
    ELSE IF conf.base # None THEN conf.base[1]
    ELSE default_collector

\* C20: an adapter given a Collector adds its records to that Collector only
\* and leaves every other one, the default included, unchanged; given none, it
\* adds to the default collector; add() and clear() on one Collector change no
\* other.
C20_CollectorsIndependent ==
    /\ done.kind \in TimedKinds \cup {"mark"} =>
          /\ colls[NamedCollector(done.conf)] =
                Append(done.pre[NamedCollector(done.conf)], done.record[1])
          /\ \A c \in Collectors \ {NamedCollector(done.conf)} : colls[c] = done.pre[c]
    /\ done.kind \in {"add", "clear"} =>
          \A c \in Collectors \ {done.target} : colls[c] = done.pre[c]

\* C17: every TimingRecord a Timer produces has a start timestamp and
\* end_ns >= start_ns, so its duration_ns = end_ns - start_ns is defined and not
\* negative, given only that the clock readings do not decrease.
C17_DurationNonNegative ==
    \A i \in 1..Len(produced) :
        /\ produced[i].start_ns # NoneNs
        /\ produced[i].end_ns >= produced[i].start_ns
        /\ duration_ns(produced[i]) >= 0

\* C18: a TimingRecord does not change once stop() has returned it: its name,
\* start_ns, end_ns and context stay what they were at that moment, whatever is
\* done afterwards to the Timer, to the dict passed to the Timer as context, or
\* to the Collector holding the record.
C18_RecordNeverChanges ==
    ali.rec # None => Deref(ali.rec[1]) = ali.snap[1]

\* C19: best_human_duration() picks the unit by strict thresholds taken in
\* order: below 1000 ns the unit is ns and the value is the exact integer
\* duration; else below 1,000,000 ns it is us; else below 1,000,000,000 ns it is
\* ms; else s.  So 999 -> ns, 1000 -> us, 999,999 -> us, 1,000,000 -> ms,
\* 999,999,999 -> ms, 1,000,000,000 -> s.
C19_UnitByStrictThresholds ==
    human.result # None =>
        LET d == human.record.end_ns - human.record.start_ns
            unit == human.result[1].unit
        IN /\ (unit = "ns") = (d < 1000)
           /\ (unit = "us") = (d >= 1000 /\ d < 1000000)
           /\ (unit = "ms") = (d >= 1000000 /\ d < 1000000000)
           /\ (unit = "s") = (d >= 1000000000)
           /\ unit = "ns" =>
                 (human.result[1].scaled = d /\ human.result[1].decimals = 0)

\* C19's case: the last duration below a boundary, 999,999,999 ns, reported in ms.
C19_Witness ==
    /\ human.result # None
    /\ human.record.end_ns - human.record.start_ns = 999999999
    /\ human.record.start_ns = 7
    /\ human.result[1].unit = "ms"

----------------------------------------------------------------------------
(* Claims about the record property, the statistics, the groups and the    *)
(* JSON export.                                                            *)

\* C26: Timer.record is None in every state before a stop() (idle and
\* running) and, after stop(), is the very record that stop() returned; a
\* Timer that is started and never stopped produces no record and changes no
\* Collector.
C26_RecordOnlyAfterStop ==
    /\ produced = <<>> =>
          /\ Timer_record(timer) = None
          /\ TimerState(timer) \in {"idle", "running"}
          /\ records = Collector_init
    /\ tlast.op = "stop" =>
          /\ tlast.value = Timer_record(timer)
          /\ tlast.value = Some(produced[Len(produced)])
    /\ produced # <<>> => Timer_record(timer) = Some(produced[Len(produced)])

\* C26's case: stop() on a running Timer whose record was None, returning the
\* record the property then gives.
C26_Witness ==
    /\ tlast.op = "stop"
    /\ tlast.pre = "running"
    /\ tlast.prerecord = None
    /\ Len(produced) = 1
    /\ Timer_record(timer) = Some(produced[1])
    /\ produced[1].end_ns > produced[1].start_ns

\* C27: for every name with a stored record, stats(name) has count >= 1,
\* 0 <= min_ns <= avg_ns <= max_ns <= total_ns and
\* count * avg_ns <= total_ns < count * (avg_ns + 1); with count = 1 all of
\* min_ns, max_ns, avg_ns and total_ns are equal.
C27_StatsOrdered ==
    \A name \in QueryNames :
        MatchIdx(records, name) # {} =>
            LET stats == Collector_stats(records, name)
            IN /\ stats # None
               /\ stats[1].count >= 1
               /\ 0 <= stats[1].min_ns
               /\ stats[1].min_ns <= stats[1].avg_ns
               /\ stats[1].avg_ns <= stats[1].max_ns
               /\ stats[1].max_ns <= stats[1].total_ns
               /\ stats[1].count * stats[1].avg_ns <= stats[1].total_ns
               /\ stats[1].total_ns < stats[1].count * (stats[1].avg_ns + 1)
               /\ stats[1].count = 1 =>
                     /\ stats[1].min_ns = stats[1].max_ns
                     /\ stats[1].max_ns = stats[1].avg_ns
                     /\ stats[1].avg_ns = stats[1].total_ns

\* C27's case: a name with the durations 300, 100 in that order, so that
\* min_ns < avg_ns < max_ns < total_ns, beside a name with a single record.
C27_Witness ==
    /\ Len(records) = 3
    /\ Collector_stats(records, "a") # None
    /\ Collector_stats(records, "a")[1] =
          [count |-> 2, min_ns |-> 100, max_ns |-> 300, avg_ns |-> 200,
           total_ns |-> 400]
    /\ duration_ns(Collector_by_name(records, "a")[1]) = 300
    /\ Collector_stats(records, "A") # None
    /\ Collector_stats(records, "A")[1].count = 1

\* The sum of stats(k).total_ns over the keys in S.
RECURSIVE SumTotals(_, _)
SumTotals(recs, S) ==
    IF S = {} THEN 0
    ELSE LET k == CHOOSE n \in S : TRUE
         IN Collector_stats(recs, k)[1].total_ns + SumTotals(recs, S \ {k})

\* The sum of stats(k).count over the keys in S.
RECURSIVE SumCounts(_, _)
SumCounts(groups, S) ==
    IF S = {} THEN 0
    ELSE LET k == CHOOSE n \in S : TRUE
         IN groups[k].count + SumCounts(groups, S \ {k})

\* C28: in every Collector state the groups of grouped() partition the stored
\* sequence: each stored record is in exactly one group, no group is empty,
\* the group sizes sum to len(all()), stats(k) is present for every key k with
\* count = len(grouped()[k]), and the total_ns of all groups sum to the sum of
\* the durations of all stored records.
C28_GroupsPartition ==
    LET groups == Collector_grouped(records)
        keys == DOMAIN groups
    IN /\ \A k \in keys : groups[k] # <<>>
       /\ \A i \in 1..Len(records) :
             Cardinality({k \in keys :
                 \E j \in 1..Len(groups[k]) : groups[k][j] = records[i]}) = 1
       /\ TotalOver(groups, keys) = Len(Collector_all(records))
       /\ \A k \in keys :
             /\ Collector_stats(records, k) # None
             /\ Collector_stats(records, k)[1].count = Len(groups[k])
       /\ SumTotals(records, keys) = SumDurations(records, 1..Len(records))

\* C28's case: three stored records in two groups, the names interleaved.
C28_Witness ==
    /\ Len(records) = 3
    /\ records[1].name = "a" /\ records[2].name = "A" /\ records[3].name = "a"
    /\ Len(Collector_grouped(records)["a"]) = 2
    /\ Len(Collector_grouped(records)["A"]) = 1
    /\ duration_ns(records[1]) # duration_ns(records[3])

\* C25: the export of save_to_file comes from one state of the Collector:
\* total_measurements is the number of entries of records; records lists the
\* stored records in insertion order with name, durations and context; groups
\* has exactly one entry per distinct name, its value stats(name), so the
\* counts of the groups sum to total_measurements; the Collector is unchanged.
C25_ExportFromOneState ==
    last.op = "save_to_file" =>
        LET payload == last.value
            names == {last.pre[i].name : i \in 1..Len(last.pre)}
        IN /\ payload.total_measurements = Len(payload.records)
           /\ Len(payload.records) = Len(last.pre)
           /\ \A i \in 1..Len(last.pre) :
                 /\ payload.records[i].name = last.pre[i].name
                 /\ payload.records[i].duration_ns = duration_ns(last.pre[i])
                 /\ payload.records[i].duration_us = duration_ns(last.pre[i])
                 /\ payload.records[i].duration_s = duration_ns(last.pre[i])
                 /\ 2 * payload.records[i].duration_ms * 1000
                       <= 2 * duration_ns(last.pre[i]) + 1000
                 /\ 2 * payload.records[i].duration_ms * 1000
                       >= 2 * duration_ns(last.pre[i]) - 1000
                 /\ payload.records[i].context = last.pre[i].context
           /\ DOMAIN payload.groups = names
           /\ \A name \in names :
                 /\ payload.groups[name] # None
                 /\ payload.groups[name] = Collector_stats(last.pre, name)
                 /\ payload.groups[name][1].count =
                       Cardinality(MatchIdx(last.pre, name))
           /\ SumCounts([name \in names |-> payload.groups[name][1]], names)
                 = payload.total_measurements
           /\ records = last.pre

\* C25's case: an export of three records under two names.
C25_Witness ==
    /\ last.op = "save_to_file"
    /\ last.value.total_measurements = 3
    /\ DOMAIN last.value.groups = {"a", "A"}
    /\ last.value.groups["a"][1].count = 2
    /\ last.value.records[2].name = "A"

----------------------------------------------------------------------------
(* Claims about the LineProfiler (SpecProfiler).                           *)

\* The names "<session> | <checkpoint>".
SegmentNames ==
    [load |-> [read |-> "load | read", parse |-> "load | parse"],
     save |-> [read |-> "save | read", parse |-> "save | parse"]]

\* The records of the profiler's session among those of its Collector, in
\* stored order.
IsSegmentOf(r, session) == <<"session", session>> \in r.context
Segments ==
    SelectSeq(colls[inv.prof.collector],
              LAMBDA r : IsSegmentOf(r, inv.prof.session))

\* C24: the i-th mark() adds one record named "<session> | <checkpoint>" to
\* the collector, in mark order; its start_ns is the end_ns of the previous
\* mark's record, or the construction time for the first mark, and its end_ns
\* is the time of this mark; so the segments neither overlap nor leave gaps
\* and their durations sum to (time of last mark - construction time).
C24_ConsecutiveSegments ==
    inv.kind = "profiler" =>
        LET segs == Segments
            n == Len(inv.times)
        IN /\ Len(segs) = n
           /\ \A i \in 1..n :
                 /\ segs[i].name = SegmentNames[inv.prof.session][inv.prof.marks[i]]
                 /\ segs[i].context = {<<"session", inv.prof.session>>,
                                       <<"checkpoint", inv.prof.marks[i]>>}
                 /\ segs[i].end_ns = inv.times[i]
                 /\ segs[i].start_ns = IF i = 1 THEN inv.t0 ELSE segs[i - 1].end_ns
                 /\ segs[i].start_ns <= segs[i].end_ns
           /\ n > 0 => SumDurations(segs, 1..n) = inv.times[n] - inv.t0
           /\ done.kind = "mark" =>
                 /\ n > 0
                 /\ done.value = Some(segs[n])
                 /\ colls[inv.prof.collector] =
                       Append(done.pre[inv.prof.collector], segs[n])
                 /\ \A c \in Collectors \ {inv.prof.collector} :
                       colls[c] = done.pre[c]

\* C24's case: three marks at three different times after the construction,
\* with a record of another caller stored between the segments.
C24_Witness ==
    /\ inv.kind = "profiler"
    /\ Len(inv.times) = 3
    /\ inv.t0 < inv.times[1]
    /\ inv.times[1] < inv.times[2]
    /\ inv.times[2] < inv.times[3]
    /\ inv.prof.marks[1] # inv.prof.marks[2]
    /\ Len(colls[inv.prof.collector]) = 4
    /\ ~IsSegmentOf(colls[inv.prof.collector][2], inv.prof.session)
    /\ done.kind = "mark"

\* C30: finish() adds no record to the collector and leaves the profiler's
\* last timestamp unchanged; the checkpoint count it reports is the number of
\* mark() calls made on that profiler, which is the number of records the
\* profiler has added to its collector.
C30_FinishAddsNothing ==
    done.kind = "finish" =>
        /\ colls = done.pre
        /\ inv.prof.last_ns = done.prelast
        /\ done.value = None
        /\ done.reported = expected
        /\ done.reported = Len(Segments)
        /\ done.reported = Len(inv.times)

\* C30's case: a finish() after two marks, the last of them later than the
\* construction, on a Collector that also holds a record of another caller.
C30_Witness ==
    /\ done.kind = "finish"
    /\ done.reported = 2
    /\ inv.prof.last_ns > inv.t0
    /\ Len(colls[inv.prof.collector]) = 3

----------------------------------------------------------------------------
(* Claims about AsgiMiddleware (SpecAsgi).                                 *)

\* C22: AsgiMiddleware times http scopes only: a call whose scope type is not
\* "http" is forwarded to the inner application exactly once and adds no
\* record; a call with an http scope is forwarded exactly once and adds
\* exactly one record named "HTTP <method> <path>" with context {method, path}.
C22_AsgiTimesHttpOnly ==
    done.kind = "asgi" =>
        /\ done.forwards = 1
        /\ done.scope.type # Some("http") =>
              /\ colls = done.pre
              /\ done.record = None
        /\ done.scope.type = Some("http") =>
              /\ done.record # None
              /\ colls[done.collector] =
                    Append(done.pre[done.collector], done.record[1])
              /\ \A c \in Collectors \ {done.collector} : colls[c] = done.pre[c]
              /\ \E method \in ScopeMethods \cup {"UNKNOWN"},
                    path \in ScopePaths \cup {"/"} :
                    done.record[1].context =
                        {<<"method", method>>, <<"path", path>>}
              /\ done.scope.method = Some("POST") /\ done.scope.path = Some("/submit")
                    => /\ done.record[1].name = "HTTP POST /submit"
                       /\ done.record[1].context =
                             {<<"method", "POST">>, <<"path", "/submit">>}
              /\ done.scope.method = Some("GET") /\ done.scope.path = Some("/submit")
                    => /\ done.record[1].name = "HTTP GET /submit"
                       /\ done.record[1].context =
                             {<<"method", "GET">>, <<"path", "/submit">>}

\* C22's case: a websocket scope passed through to an application that
\* raised, after an http POST whose record the Collector holds.
C22_Witness ==
    /\ done.kind = "asgi"
    /\ done.scope.type = Some("websocket")
    /\ done.work.path = "raise"
    /\ done.forwards = 1
    /\ Len(colls[done.collector]) = 1
    /\ colls[done.collector][1].name = "HTTP POST /submit"
    /\ colls[done.collector][1].end_ns > colls[done.collector][1].start_ns

----------------------------------------------------------------------------
(* Claims about WatchedMixin (SpecMixin).                                  *)

\* The names "<prefix>.<method name>" of the public method.
MethodNames == [Svc |-> "Svc.work", Custom |-> "Custom.work"]

\* C23: for a class using WatchedMixin, each call of a public method defined
\* on that class adds exactly one record named "<prefix>.<method name>"
\* (prefix = _watch_prefix, defaulting to the class name) to the class's
\* _watch_collector, and a call of a method whose name starts with an
\* underscore adds no record.
C23_PublicMethodsRecorded ==
    done.kind = "mixin_call" =>
        LET target == NamedCollector(done.cls.collector)
            prefix == IF done.cls.prefix = None THEN "Svc" ELSE done.cls.prefix[1]
        IN /\ done.attr.name = "work" =>
                 /\ Len(colls[target]) = Len(done.pre[target]) + 1
                 /\ SubSeq(colls[target], 1, Len(done.pre[target])) = done.pre[target]
                 /\ colls[target][Len(colls[target])].name = MethodNames[prefix]
                 /\ \A c \in Collectors \ {target} : colls[c] = done.pre[c]
           /\ done.attr.name = "_private" => colls = done.pre

----------------------------------------------------------------------------
(* Claims about threads recording through adapters (SpecWatch).            *)

\* C21: the insertion order of a Collector is the order in which the
\* measurements completed: of any two records in all(), the one stored
\* earlier has an end_ns less than or equal to that of the one stored later,
\* also when several threads time regions through adapters and record into
\* the same Collector concurrently; of nested regions, the inner record
\* precedes the outer one.
C21_OrderIsCompletionOrder ==
    LET all == Collector_all(records)
    IN \A i, j \in 1..Len(all) :
          i < j => all[i].end_ns <= all[j].end_ns

----------------------------------------------------------------------------
(* Claims about print_summary under concurrent callers (SpecSummary).      *)

\* C29: print_summary never hands an absent stats value to the stats
\* formatter: for every name it takes from grouped() whose group has more
\* than one record, the stats(name) it then requests is present, also when
\* other threads call add() or clear() on the same Collector meanwhile; the
\* summary never fails because of such concurrent activity.
C29_SummaryNeverFails ==
    /\ pc[ReaderId] # "TypeError"
    /\ loc[ReaderId].op = "print_summary" =>
          \A i \in 1..Len(loc[ReaderId].handed) : loc[ReaderId].handed[i] # None

----------------------------------------------------------------------------
(* Claims about the value best_human_duration() reports (SpecHuman).       *)

\* C31: for every duration >= 1000 ns the value best_human_duration() returns
\* lies in [1, 1000) when the unit is us or ms, and is >= 1 when the unit is
\* s, the value taken after rounding: in thousandths of the unit it is in
\* [1000, 1000000).  So a duration just below a unit boundary, such as
\* 999,999,600 ns, is never reported as 1000.0 of the smaller unit.
C31_RoundedValueBelowLimit ==
    (human.result # None /\ duration_ns(human.record) >= 1000) =>
        LET unit == human.result[1].unit
            scaled == human.result[1].scaled
        IN /\ unit \in {"us", "ms"} => (1000 <= scaled /\ scaled < 1000000)
           /\ unit = "s" => scaled >= 1000000

====
